---- MODULE Spec2Model ----
(***************************************************************************)
(* hypr-ringlight: the shared configuration store (IpcState), the control  *)
(* channel served over a Unix socket (ipc.rs), and the per-output surface  *)
(* bookkeeping of the Wayland client (main.rs).                            *)
(*                                                                         *)
(* A Rust String is a sequence of one-character strings.  A real (f64) is  *)
(* an integer number of steps of 1/(Scale*SubMilli); float rounding is not *)
(* modelled, the truncation of the fixed-point store is.                   *)
(***************************************************************************)
EXTENDS Integers, Sequences, FiniteSets, TLC

VARIABLES
    ipc,           \* IpcState: the atomics of the configuration store
    running,       \* the server process is alive (process::exit not yet called)
    conn,          \* per connection: socket state, bytes in flight, handler thread
    sent,          \* history: every line a client has written, in order of the writes
    inp,           \* sequential harness: the hex string under test
    outp,          \* sequential harness: its re-encoding, <<>> before the call
    call,          \* sequential harness: the last set-then-get, [op, arg, ret]
    file,          \* config.toml: NoFile or the Config it holds
    cfg,           \* main's cfg: the Config loaded at startup with the command line's overrides
    saving,        \* the tray thread inside save_to_config: NoSave or the Config it has loaded
    listener,      \* start_server: "none" before the call, "unlinked" after remove_file,
                   \* "listening" after bind, "bound" once the accept loop runs, or "failed"
    endpoint,      \* the socket file at socket_path(): its owner, mode and directory
    second,        \* a second instance of the program: where it is, and its store
    phase,         \* where main is: "roundtrip", "loop" or "exited"
    outputs,       \* OutputState: wl_output id -> OutputInfo of the bound outputs
    output_names,  \* RingLight::output_names: wl_output id -> connector
    monitors,      \* RingLight::monitors: wl_surface id -> MonitorRing
    registry,      \* the monitor registry of the store, a sequence of entries
    clock,         \* frames elapsed since start_time: (elapsed * 60.0) as u32
    last           \* history: the last event the dispatch thread handled

harness == <<inp, outp, call>>
surf == <<phase, outputs, output_names, monitors, registry, clock, last>>
disk == <<file, cfg, saving, listener, endpoint, second>>
vars == <<ipc, running, conn, sent, harness, disk, surf>>

(***************************************************************************)
(* Bounds of the model.                                                    *)
(***************************************************************************)
SubMilli == 10       \* representable reals per 1/Scale
MaxExtra == 1        \* hex digits after the sixth in a tested color string
MaxMarkers == 1      \* leading '#' characters in a tested color string
MaxConns == 2        \* connections a run opens
MaxSends == 3        \* lines written by clients in a run
MaxOutputs == 2      \* wl_output objects bound at one time
MaxSurfaces == 3     \* wl_surface objects alive at one time
MaxCallbacks == 2    \* frame callbacks one surface has outstanding
StoreBits == 20      \* bits of the AtomicU32 behind opacity and corner radius
MantissaBits == 12   \* significand bits of the model's floating-point quotient

(***************************************************************************)
(* Program constants.                                                      *)
(***************************************************************************)
Scale == 1000                  \* opacity and corner radius are stored * 1000
U8Max == 255
default_thickness == 80
default_glow == 80
default_animation_speed == 120
default_opacity == 1 * Scale * SubMilli           \* 1.0
default_corner_radius == (5 * Scale * SubMilli) \div 2   \* 2.5

(***************************************************************************)
(* Characters and strings.                                                 *)
(***************************************************************************)
LowerHex == <<"0","1","2","3","4","5","6","7","8","9","a","b","c","d","e","f">>
UpperHex == <<"0","1","2","3","4","5","6","7","8","9","A","B","C","D","E","F">>
LowerAlpha == <<"a","b","c","d","e","f","g","h","i","j","k","l","m",
                "n","o","p","q","r","s","t","u","v","w","x","y","z">>
UpperAlpha == <<"A","B","C","D","E","F","G","H","I","J","K","L","M",
                "N","O","P","Q","R","S","T","U","V","W","X","Y","Z">>

\* char::to_digit(16): the value of a hex digit, -1 for any other character
to_digit(c) ==
    IF \E i \in 1..16 : LowerHex[i] = c
    THEN (CHOOSE i \in 1..16 : LowerHex[i] = c) - 1
    ELSE IF \E i \in 1..16 : UpperHex[i] = c
    THEN (CHOOSE i \in 1..16 : UpperHex[i] = c) - 1
    ELSE -1

\* char::to_lowercase on the ASCII range
lower_char(c) ==
    IF \E i \in 1..26 : UpperAlpha[i] = c
    THEN LowerAlpha[CHOOSE i \in 1..26 : UpperAlpha[i] = c]
    ELSE c

\* str::to_lowercase
to_lowercase(s) == [i \in DOMAIN s |-> lower_char(s[i])]

\* str::trim_start_matches('#'): every leading '#' is removed
RECURSIVE trim_start_matches(_)
trim_start_matches(s) ==
    IF Len(s) > 0 /\ Head(s) = "#" THEN trim_start_matches(Tail(s)) ELSE s

\* u8::from_str_radix(s, 16) on a two-character slice: -1 stands for Err.
\* A leading '+' is a sign and must be followed by at least one digit.
from_str_radix(s) ==
    LET digits == IF Len(s) > 1 /\ s[1] = "+" THEN Tail(s) ELSE s IN
    IF Len(digits) = 0 \/ \E i \in DOMAIN digits : to_digit(digits[i]) = -1
    THEN -1
    ELSE IF Len(digits) = 1 THEN to_digit(digits[1])
    ELSE 16 * to_digit(digits[1]) + to_digit(digits[2])

unwrap_or(v, d) == IF v = -1 THEN d ELSE v

parse_hex_color_wrong_slice(hex) ==
    LET h == trim_start_matches(hex) IN
    IF Len(h) < 6 THEN <<U8Max, U8Max, U8Max>>
    ELSE <<unwrap_or(from_str_radix(SubSeq(h, 1, 2)), U8Max),
           unwrap_or(from_str_radix(SubSeq(h, 3, 4)), U8Max),
           unwrap_or(from_str_radix(SubSeq(h, Len(h) - 1, Len(h))), U8Max)>>

\* A string is the sequence of its UTF-8 bytes: an ASCII character is one
\* element, a longer character is its first byte, named by the code point,
\* followed by one "cont" for each continuation byte.
\* str::is_char_boundary
is_char_boundary(s, n) == n = 0 \/ n = Len(s) \/ (n < Len(s) /\ s[n + 1] # "cont")

\* one of the three slices ends inside a character: the index expression panics
parse_hex_color_panics(hex) ==
    LET h == trim_start_matches(hex) IN
    /\ Len(h) >= 6
    /\ \E n \in {2, 4, 6} : ~is_char_boundary(h, n)

\* the triple returned when no slice panics; &hex[i..j] takes bytes i+1..j
parse_hex_color(hex) ==
    LET h == trim_start_matches(hex) IN
    IF Len(h) < 6 THEN <<U8Max, U8Max, U8Max>>
    ELSE <<unwrap_or(from_str_radix(SubSeq(h, 1, 2)), U8Max),
           unwrap_or(from_str_radix(SubSeq(h, 3, 4)), U8Max),
           unwrap_or(from_str_radix(SubSeq(h, 5, 6)), U8Max)>>

\* format!("{:02x}{:02x}{:02x}", r, g, b)
color_to_hex(r, g, b) ==
    <<LowerHex[(r \div 16) + 1], LowerHex[(r % 16) + 1],
      LowerHex[(g \div 16) + 1], LowerHex[(g % 16) + 1],
      LowerHex[(b \div 16) + 1], LowerHex[(b % 16) + 1]>>

animation_from_string_unknown_kept(s) ==
    LET l == to_lowercase(s) IN
    IF l = <<"p","u","l","s","e">> THEN 1
    ELSE IF l = <<"r","a","i","n","b","o","w">> THEN 2
    ELSE IF l = <<"b","r","e","a","t","h","e">> THEN 3
    ELSE IF l = <<"n","o","n","e">> THEN 0
    ELSE 4

animation_from_string(s) ==
    LET l == to_lowercase(s) IN
    IF l = <<"p","u","l","s","e">> THEN 1
    ELSE IF l = <<"r","a","i","n","b","o","w">> THEN 2
    ELSE IF l = <<"b","r","e","a","t","h","e">> THEN 3
    ELSE 0

animation_to_string(mode) ==
    IF mode = 1 THEN <<"p","u","l","s","e">>
    ELSE IF mode = 2 THEN <<"r","a","i","n","b","o","w">>
    ELSE IF mode = 3 THEN <<"b","r","e","a","t","h","e">>
    ELSE <<"n","o","n","e">>

(***************************************************************************)
(* IpcState: construction, getters and setters.                            *)
(***************************************************************************)
\* (v * 1000.0) as u32: truncation toward zero, a negative value casts to 0
to_fixed_rounding(v) == IF v < 0 THEN 0 ELSE (v + SubMilli - 1) \div SubMilli

\* u32::MAX, for a store of StoreBits bits
u32_MAX == 2^StoreBits - 1

\* a cast that wraps where `as u32` saturates
to_fixed_wrapping(v) == IF v < 0 THEN 0 ELSE (v \div SubMilli) % (u32_MAX + 1)

\* a float-to-integer `as` cast saturates at the bounds of the target type
to_fixed(v) ==
    IF v < 0 THEN 0
    ELSE IF v \div SubMilli > u32_MAX THEN u32_MAX
    ELSE v \div SubMilli

\* stored as f64 / 1000.0
from_fixed(s) == s * SubMilli

IpcState_new(color, thickness, opacity, glow, corner_radius, animation, animation_speed) ==
    [color_r |-> color[1], color_g |-> color[2], color_b |-> color[3],
     thickness |-> thickness,
     opacity |-> to_fixed(opacity),
     glow |-> glow,
     corner_radius |-> to_fixed(corner_radius),
     animation_mode |-> animation,
     animation_speed |-> animation_speed,
     visible |-> TRUE]

get_color(s) == <<s.color_r, s.color_g, s.color_b>>
set_color(s, r, g, b) == [s EXCEPT !.color_r = r, !.color_g = g, !.color_b = b]
get_opacity(s) == from_fixed(s.opacity)
set_opacity(s, v) == [s EXCEPT !.opacity = to_fixed(v)]
get_corner_radius(s) == from_fixed(s.corner_radius)
set_corner_radius(s, v) == [s EXCEPT !.corner_radius = to_fixed(v)]
get_thickness(s) == s.thickness
get_glow(s) == s.glow
get_animation_mode(s) == s.animation_mode
get_animation_speed(s) == s.animation_speed
is_visible(s) == s.visible

\* the plain atomic stores of handle_client and of the tray
set_thickness(s, v) == [s EXCEPT !.thickness = v]
set_glow(s, v) == [s EXCEPT !.glow = v]
set_animation_mode(s, m) == [s EXCEPT !.animation_mode = m]
set_animation_speed(s, v) == [s EXCEPT !.animation_speed = v]
set_visible(s, v) == [s EXCEPT !.visible = v]

\* Config::default() and the snapshot main builds from it
DefaultColor == <<"f","f","f","f","f","f">>
DefaultIpc ==
    IpcState_new(parse_hex_color(DefaultColor), default_thickness, default_opacity,
                 default_glow, default_corner_radius, 0, default_animation_speed)

(***************************************************************************)
(* Values the variables hold in a specification that does not use them.    *)
(***************************************************************************)
Conns == 1..MaxConns
\* srv: the instance whose listener the connection reached; uid: the client's user
NoConn ==
    [st |-> "free", inq |-> <<>>, eof |-> FALSE, pc |-> "read", loc |-> <<>>, out |-> <<>>,
     srv |-> 1, uid |-> "owner"]
NoInput == [markers |-> 0, digits |-> <<>>]
NoCall == [op |-> "none", arg |-> 0, ret |-> 0]

IdleServer == running = TRUE /\ conn = [c \in Conns |-> NoConn] /\ sent = <<>>
IdleHarness == inp = NoInput /\ outp = <<>> /\ call = NoCall
NoFile == [absent |-> TRUE]
NoSave == [idle |-> TRUE]
default_bar_height == 35
None == <<"n","o","n","e">>
Config_default ==
    [color |-> DefaultColor, thickness |-> default_thickness, opacity |-> default_opacity,
     glow |-> default_glow, corner_radius |-> default_corner_radius,
     animation |-> None, animation_speed |-> default_animation_speed,
     bar_height |-> default_bar_height, bar_position |-> <<"t","o","p">>]
\* main found no config file and no option on its command line
\* the socket file: the instance whose listener it names (0: no file), its
\* permission bits, and whether socket_path() lies in XDG_RUNTIME_DIR or /tmp
NoEndpoint == [owner |-> 0, mode |-> "none", dir |-> "runtime"]
OwnEndpoint == [owner |-> 1, mode |-> "0600", dir |-> "runtime"]
NoSecond == [pc |-> "off", ipc |-> DefaultIpc, after |-> FALSE]
IdleDisk == file = NoFile /\ cfg = Config_default /\ saving = NoSave /\ listener = "bound" /\ endpoint = OwnEndpoint /\ second = NoSecond
NoEvent == [ev |-> "none"]
NoMap == [x \in {} |-> x]
IdleSurf ==
    /\ phase = "loop" /\ outputs = NoMap /\ output_names = NoMap
    /\ monitors = NoMap /\ registry = <<>> /\ clock = 0 /\ last = NoEvent

(***************************************************************************)
(* The control channel.  A line in flight is what serde_json makes of it:  *)
(* a Command, text that is no Command, or bytes that are no UTF-8.         *)
(***************************************************************************)
Red == <<"f","f","0","0","0","0">>
NotUtf8 == [cmd |-> "not-utf8"]
NotJson == [cmd |-> "not-json"]
GetState == [cmd |-> "GetState"]
Quit == [cmd |-> "Quit"]
Cmd(name, v) == [cmd |-> name, value |-> v]

\* the lines the clients of Spec write
CtlLines ==
    { Cmd("SetColor", Red), Cmd("SetThickness", 40), Cmd("SetOpacity", 500 * SubMilli),
      Cmd("SetGlow", 0), Cmd("SetCornerRadius", 0), Cmd("SetAnimation", <<"P","u","l","s","e">>),
      Cmd("SetAnimationSpeed", 60), Cmd("SetVisible", FALSE),
      GetState, Quit, NotJson, NotUtf8 }

\* the fields GetState loads, in the order it loads them
GetFields ==
    <<"color_r", "color_g", "color_b", "thickness", "opacity", "glow",
      "corner_radius", "animation_mode", "animation_speed", "visible">>

\* the State response built from the ten loaded values
StateOf(l) ==
    [color |-> color_to_hex(l[1], l[2], l[3]),
     thickness |-> l[4],
     opacity |-> from_fixed(l[5]),
     glow |-> l[6],
     corner_radius |-> from_fixed(l[7]),
     animation |-> animation_to_string(l[8]),
     animation_speed |-> l[9],
     visible |-> l[10]]

InitCtl ==
    /\ ipc = DefaultIpc
    /\ IdleServer /\ IdleSurf /\ IdleDisk
    /\ IdleHarness

\* UnixStream::connect: a bound listener lives as long as the process does
Connect(c) ==
    /\ conn[c].st = "free"
    /\ \A d \in Conns : d < c => conn[d].st # "free"
    /\ conn' = [conn EXCEPT ![c].st = IF running /\ listener = "bound" THEN "open" ELSE "refused"]
    /\ UNCHANGED <<ipc, running, sent, harness, disk, surf>>

\* writeln!(stream, ...) by a client: it returns once the line is in the socket
Send(c, l) ==
    /\ running
    /\ conn[c].st = "open" /\ ~conn[c].eof
    /\ Len(sent) < MaxSends
    /\ conn' = [conn EXCEPT ![c].inq = Append(@, l)]
    /\ sent' = Append(sent, [conn |-> c, line |-> l])
    /\ UNCHANGED <<ipc, running, harness, disk, surf>>

\* the client drops its stream
ClientClose(c) ==
    /\ running
    /\ conn[c].st = "open" /\ ~conn[c].eof
    /\ conn' = [conn EXCEPT ![c].eof = TRUE]
    /\ UNCHANGED <<ipc, running, sent, harness, disk, surf>>

\* what one iteration of handle_client's loop does with a decoded command,
\* up to and including its first access to the store
Continue(c, store) ==
    /\ ipc' = store
    /\ conn' = [conn EXCEPT ![c].inq = Tail(@)]
    /\ UNCHANGED running

\* a panic in parse_hex_color unwinds the handler thread: nothing is stored and
\* the thread's stream is dropped with the lines it has not read
HandleSetColor(c, hex) ==
    IF parse_hex_color_panics(hex)
    THEN /\ conn' = [conn EXCEPT ![c].inq = Tail(@), ![c].pc = "panicked"]
         /\ UNCHANGED <<ipc, running>>
    ELSE LET rgb == parse_hex_color(hex) IN
         /\ ipc' = [ipc EXCEPT !.color_r = rgb[1]]
         /\ conn' = [conn EXCEPT ![c].inq = Tail(@), ![c].pc = "set_color",
                                 ![c].loc = <<rgb[2], rgb[3]>>]
         /\ UNCHANGED running

\* the SetAnimation arm also putting the speed back to its default
HandleSetAnimation_resets_speed(c, name) ==
    Continue(c, set_animation_speed(set_animation_mode(ipc, animation_from_string(name)),
                                    default_animation_speed))

HandleSetAnimation(c, name) ==
    Continue(c, set_animation_mode(ipc, animation_from_string(name)))

HandleGetState(c) ==
    /\ conn' = [conn EXCEPT ![c].inq = Tail(@), ![c].pc = "get_state",
                            ![c].loc = <<ipc[GetFields[1]]>>]
    /\ UNCHANGED <<ipc, running>>

\* return true, and the connection thread calls process::exit(0)
HandleQuit_connection_only(c) ==
    /\ conn' = [conn EXCEPT ![c].inq = Tail(@), ![c].pc = "done"]
    /\ UNCHANGED <<ipc, running>>

HandleQuit(c) ==
    /\ running' = FALSE
    /\ conn' = [conn EXCEPT ![c].inq = Tail(@), ![c].pc = "done"]
    /\ UNCHANGED ipc

\* a handler waits for the line while another handler holds a half-built
\* State response
HasLine_snapshot_lock(c) ==
    /\ running /\ listener = "bound"
    /\ conn[c].st = "open" /\ conn[c].srv = 1
    /\ conn[c].pc = "read" /\ conn[c].inq # <<>>
    /\ \A d \in Conns : conn[d].pc # "get_state"

\* reader.lines() yields: the accept loop of this instance has handed the
\* connection to a handler, which is at the top of its loop, and a line is there
HasLine(c) ==
    /\ running /\ listener = "bound"
    /\ conn[c].st = "open" /\ conn[c].srv = 1
    /\ conn[c].pc = "read" /\ conn[c].inq # <<>>

\* one iteration of `for line in reader.lines()` with a line to read
ReadLine(c) ==
    /\ HasLine(c)
    /\ LET l == Head(conn[c].inq) IN
       CASE l.cmd = "not-utf8" ->
               /\ conn' = [conn EXCEPT ![c].inq = Tail(@), ![c].pc = "done"]
               /\ UNCHANGED <<ipc, running>>
         [] l.cmd = "not-json" -> Continue(c, ipc)
         [] l.cmd = "SetColor" -> HandleSetColor(c, l.value)
         [] l.cmd = "SetThickness" -> Continue(c, set_thickness(ipc, l.value))
         [] l.cmd = "SetOpacity" -> Continue(c, set_opacity(ipc, l.value))
         [] l.cmd = "SetGlow" -> Continue(c, set_glow(ipc, l.value))
         [] l.cmd = "SetCornerRadius" -> Continue(c, set_corner_radius(ipc, l.value))
         [] l.cmd = "SetAnimation" -> HandleSetAnimation(c, l.value)
         [] l.cmd = "SetAnimationSpeed" -> Continue(c, set_animation_speed(ipc, l.value))
         [] l.cmd = "SetVisible" -> Continue(c, set_visible(ipc, l.value))
         [] l.cmd = "GetState" -> HandleGetState(c)
         [] l.cmd = "Quit" -> HandleQuit(c)
    /\ UNCHANGED <<sent, harness, disk, surf>>

\* reader.lines() ends: the client has closed and every line was read
ReadEof(c) ==
    /\ running
    /\ conn[c].st = "open" /\ conn[c].pc = "read" /\ conn[c].inq = <<>> /\ conn[c].eof
    /\ conn' = [conn EXCEPT ![c].pc = "done"]
    /\ UNCHANGED <<ipc, running, sent, harness, disk, surf>>

\* set_color's second and third store
SetColorStore(c) ==
    /\ running
    /\ conn[c].pc = "set_color"
    /\ IF Len(conn[c].loc) = 2
       THEN /\ ipc' = [ipc EXCEPT !.color_g = conn[c].loc[1]]
            /\ conn' = [conn EXCEPT ![c].loc = Tail(@)]
       ELSE /\ ipc' = [ipc EXCEPT !.color_b = conn[c].loc[1]]
            /\ conn' = [conn EXCEPT ![c].loc = <<>>, ![c].pc = "read"]
    /\ UNCHANGED <<running, sent, harness, disk, surf>>

\* GetState's second to tenth load; the last one writes the response line
GetStateLoad(c) ==
    /\ running
    /\ conn[c].pc = "get_state"
    /\ LET l == Append(conn[c].loc, ipc[GetFields[Len(conn[c].loc) + 1]]) IN
       IF Len(l) < Len(GetFields)
       THEN conn' = [conn EXCEPT ![c].loc = l]
       ELSE conn' = [conn EXCEPT ![c].loc = <<>>, ![c].pc = "read",
                                 ![c].out = Append(@, StateOf(l))]
    /\ UNCHANGED <<ipc, running, sent, harness, disk, surf>>

NextCtl ==
    \E c \in Conns :
        \/ Connect(c)
        \/ \E l \in CtlLines : Send(c, l)
        \/ ClientClose(c)
        \/ ReadLine(c)
        \/ ReadEof(c)
        \/ SetColorStore(c)
        \/ GetStateLoad(c)
Spec == InitCtl /\ [][NextCtl]_vars

(***************************************************************************)
(* The config file, startup, and the tray's animation menu.                *)
(***************************************************************************)
\* Config::load: the file's Config, or the default when there is no file
Config_load(f) == IF f = NoFile THEN Config_default ELSE f

Config_animation_mode(config) ==
    LET l == to_lowercase(config.animation) IN
    IF l = <<"p","u","l","s","e">> THEN 1
    ELSE IF l = <<"r","a","i","n","b","o","w">> THEN 2
    ELSE IF l = <<"b","r","e","a","t","h","e">> THEN 3
    ELSE 0

\* the Config save_to_config builds from the store and the Config it has loaded
config_snapshot(s, existing) ==
    LET c == get_color(s)
    IN [color |-> color_to_hex(c[1], c[2], c[3]),
        thickness |-> get_thickness(s),
        opacity |-> get_opacity(s),
        glow |-> get_glow(s),
        corner_radius |-> get_corner_radius(s),
        animation |-> animation_to_string(get_animation_mode(s)),
        animation_speed |-> get_animation_speed(s),
        bar_height |-> existing.bar_height,
        bar_position |-> existing.bar_position]

\* IpcState::save_to_config with nothing else touching the file: the Config written
save_to_config(s, f) == config_snapshot(s, Config_load(f))

\* main: the store built from the loaded Config (no theme color, no CLI color)
main_state(config) ==
    IpcState_new(parse_hex_color(config.color), config.thickness, config.opacity, config.glow,
                 config.corner_radius, Config_animation_mode(config), config.animation_speed)

\* animation names given in a config file, on the command line or in SetAnimation
AnimNames ==
    { <<"R","a","i","n","b","o","w">>, <<"B","R","E","A","T","H","E">>, <<"b","o","g","u","s">>, <<>> }
NoCli == [absent |-> TRUE]
StartupFiles ==
    { NoFile,
      [Config_default EXCEPT !.animation = <<"B","R","E","A","T","H","E">>],
      [Config_default EXCEPT !.animation = <<"p","u","l","s","e"," ">>] }
CliAnimations == { NoCli, <<"R","a","i","n","b","o","w">>, <<"f","a","d","e">> }

AnimLines == { Cmd("SetAnimation", n) : n \in AnimNames } \cup { GetState }

InitAnim ==
    /\ file \in StartupFiles
    /\ \E cli \in CliAnimations :
          LET loaded == Config_load(file) IN
          cfg = IF cli = NoCli THEN loaded ELSE [loaded EXCEPT !.animation = cli]
    /\ ipc = main_state(cfg)
    /\ saving = NoSave /\ listener = "bound" /\ endpoint = OwnEndpoint /\ second = NoSecond
    /\ IdleServer /\ IdleSurf
    /\ IdleHarness

\* RadioGroup select of the Animation submenu (four options), then save_to_config;
\* Config::save may fail, which only prints a warning
TraySelectAnimation(idx, saved) ==
    /\ running
    /\ ipc' = set_animation_mode(ipc, idx)
    /\ file' = IF saved THEN save_to_config(ipc', file) ELSE file
    /\ UNCHANGED <<cfg, saving, listener, endpoint, second>>
    /\ UNCHANGED <<running, conn, sent, harness, surf>>

NextAnim ==
    \/ \E c \in {1} :
        \/ Connect(c)
        \/ \E l \in AnimLines : Send(c, l)
        \/ ReadLine(c)
        \/ GetStateLoad(c)
    \/ \E idx \in 0..3, saved \in BOOLEAN : TraySelectAnimation(idx, saved)
SpecAnim == InitAnim /\ [][NextAnim]_vars

(***************************************************************************)
(* Outputs and surfaces: the handlers the Wayland dispatch thread runs.    *)
(***************************************************************************)
OutputIds == 1..MaxOutputs
SurfaceIds == 1..MaxSurfaces
NoName == "<none>"
\* format!("output-{}", protocol_id)
OutputDash == <<"output-1", "output-2", "output-3", "output-4">>
\* OutputInfo as the compositor may report it: connector name, make, model
InfoSample ==
    { [name |-> "DP-1", make |-> "Dell", model |-> "U2720Q"],
      [name |-> "HDMI-A-1", make |-> "", model |-> ""],
      [name |-> NoName, make |-> "", model |-> "U2720Q"] }
SizeSample == { <<0, 0>>, <<2, 2>>, <<3, 2>> }

Insert(m, k, v) == [x \in DOMAIN m \cup {k} |-> IF x = k THEN v ELSE m[x]]
Remove(m, k) == [x \in DOMAIN m \ {k} |-> m[x]]

\* info.name.clone().unwrap_or_else(|| format!("output-{}", protocol_id))
connector_of(o, info) == IF info.name = NoName THEN OutputDash[o] ELSE info.name

\* make and model, else make, else model, else the connector
display_name_of(info, connector) ==
    IF info.make # ""
    THEN IF info.model # "" THEN <<info.make, " ", info.model>> ELSE <<info.make>>
    ELSE IF info.model # "" THEN <<info.model>> ELSE <<connector>>

\* the registry of the store
add_monitor(reg, id, display_name) ==
    IF \E i \in DOMAIN reg : reg[i].id = id
    THEN [i \in DOMAIN reg |->
            IF reg[i].id = id THEN [reg[i] EXCEPT !.display_name = display_name] ELSE reg[i]]
    ELSE Append(reg, [id |-> id, display_name |-> display_name, enabled |-> TRUE])

remove_monitor(reg, id) ==
    LET Other(e) == e.id # id IN SelectSeq(reg, Other)

is_monitor_enabled(reg, id) ==
    IF \E i \in DOMAIN reg : reg[i].id = id
    THEN reg[CHOOSE i \in DOMAIN reg : reg[i].id = id].enabled
    ELSE TRUE

\* the id a new wl_surface gets: the lowest one not in use
FreeSurfaces(mons) == SurfaceIds \ DOMAIN mons
NewSurface(mons) ==
    CHOOSE s \in FreeSurfaces(mons) : \A t \in FreeSurfaces(mons) : s <= t

\* Config::bar_position_enum: the lowercased string names the edge, anything
\* else is the top
Config_bar_position_enum(config) ==
    LET p == to_lowercase(config.bar_position) IN
    IF p = <<"b","o","t","t","o","m">> THEN "Bottom"
    ELSE IF p = <<"l","e","f","t">> THEN "Left"
    ELSE IF p = <<"r","i","g","h","t">> THEN "Right"
    ELSE "Top"

\* the match of create_ring_for_output with the bar on the left taken for the
\* third argument of set_margin
bar_margin_left_as_bottom(bar_position, bar_height) ==
    IF bar_position = "Top" THEN <<bar_height, 0, 0, 0>>
    ELSE IF bar_position = "Bottom" THEN <<0, 0, bar_height, 0>>
    ELSE IF bar_position = "Left" THEN <<0, 0, bar_height, 0>>
    ELSE <<0, bar_height, 0, 0>>

\* the arguments <<top, right, bottom, left>> of layer.set_margin
bar_margin(bar_position, bar_height) ==
    IF bar_position = "Top" THEN <<bar_height, 0, 0, 0>>
    ELSE IF bar_position = "Bottom" THEN <<0, 0, bar_height, 0>>
    ELSE IF bar_position = "Left" THEN <<0, 0, 0, bar_height>>
    ELSE <<0, bar_height, 0, 0>>

\* the MonitorRing create_ring_for_output inserts, with the margin it has set on
\* the layer surface from RingLight's bar_position and bar_height
MonitorRing(id) ==
    [width |-> 0, height |-> 0, first_configure |-> TRUE, output_name |-> id,
     callbacks |-> 0, attached |-> FALSE, damage |-> <<0, 0>>, buffer |-> <<>>,
     margin |-> bar_margin(Config_bar_position_enum(cfg), cfg.bar_height)]

\* create_ring_for_output submitting a buffer with its first commit
create_ring_for_output_draws_first(st, id, display_name) ==
    [monitors |-> Insert(st.monitors, NewSurface(st.monitors),
                         [MonitorRing(id) EXCEPT !.attached = TRUE, !.callbacks = 1]),
     registry |-> add_monitor(st.registry, id, display_name)]

\* RingLight::create_ring_for_output on st = [monitors, registry]
create_ring_for_output(st, id, display_name) ==
    [monitors |-> Insert(st.monitors, NewSurface(st.monitors), MonitorRing(id)),
     registry |-> add_monitor(st.registry, id, display_name)]

(***************************************************************************)
(* Compositing.  Lengths, opacities and alphas are reals in steps of        *)
(* 1/One; pixel coordinates and sizes are whole pixels.                     *)
(***************************************************************************)
One == Scale * SubMilli
Max(a, b) == IF a >= b THEN a ELSE b
Min(a, b) == IF a <= b THEN a ELSE b
Abs(a) == IF a < 0 THEN 0 - a ELSE a

\* f64::sqrt of a^2 + b^2 for a, b >= 0: exact when one of them is 0, else taken
\* on the thousandths
RECURSIVE sqrt_between(_, _, _)
sqrt_between(n, lo, hi) ==
    IF hi - lo <= 1 THEN lo
    ELSE LET mid == (lo + hi) \div 2 IN
         IF mid * mid <= n THEN sqrt_between(n, mid, hi) ELSE sqrt_between(n, lo, mid)
sqrt(n) == sqrt_between(n, 0, 46341)
hypot(a, b) ==
    IF b = 0 THEN a
    ELSE IF a = 0 THEN b
    ELSE sqrt((a \div SubMilli) * (a \div SubMilli) + (b \div SubMilli) * (b \div SubMilli)) * SubMilli

\* signed distance of pixel (x, y) of a w x h surface to the inner rounded border;
\* x, y, w, h, inset in pixels, corner_radius and the result in steps
distance_to_inner_rounded_border(x, y, w, h, inset, corner_radius) ==
    LET left == inset * One
        right == (w - inset) * One
        top == inset * One
        bottom == (h - inset) * One
    IN IF right <= left \/ bottom <= top THEN 100 * One
       ELSE LET half_w == (right - left) \div 2
                half_h == (bottom - top) \div 2
                r == Max(Min(Min(corner_radius, half_w), half_h), 0)
                cx == (left + right) \div 2
                cy == (top + bottom) \div 2
                px == Abs(x * One - cx)
                py == Abs(y * One - cy)
                qx == px - (half_w - r)
                qy == py - (half_h - r)
                outside_dist == hypot(Max(qx, 0), Max(qy, 0))
                inside_dist == Min(Max(qx, qy), 0)
            IN outside_dist + inside_dist - r

\* f64::sin of turn = num/den of a full turn, tabulated in thousandths at 24 points
\* per turn (the phase is taken down to the table)
SinTable ==
    <<0, 258, 500, 707, 866, 965, 1000, 965, 866, 707, 500, 258,
      0, -258, -500, -707, -866, -965, -1000, -965, -866, -707, -500, -258>>
sin_turn(num, den) == SinTable[(((24 * num) \div den) % 24) + 1] * SubMilli

\* frame as f64 / animation_speed as f64 in binary floating point, with a
\* significand of MantissaBits bits and no spacing below 1/FracUnit; the result
\* is in units of 1/FracUnit.  A quotient in [2^k, 2^(k+1)) is rounded to the
\* nearest multiple of 2^(k+1)/FracUnit
RECURSIVE Pow2(_)
Pow2(n) == IF n = 0 THEN 1 ELSE 2 * Pow2(n - 1)
FracUnit == Pow2(MantissaBits)
RECURSIVE spacing(_, _)
spacing(a, b) == IF a < b THEN 1 ELSE 2 * spacing(a, 2 * b)
f64_div(a, b) ==
    LET u == spacing(a, b)
    IN u * ((2 * a * FracUnit + b * u) \div (2 * b * u))

\* x % 1.0, exact in floating point
f64_fract(x) == x % FracUnit

\* the closure of hsl_to_rgb, t = tn/td
hue_to_rgb(p, q, tn, td) ==
    LET t1 == IF tn < 0 THEN tn + td ELSE tn
        t == IF t1 > td THEN t1 - td ELSE t1
    IN IF 6 * t < td THEN p + ((q - p) * 6 * t) \div td
       ELSE IF 2 * t < td THEN q
       ELSE IF 3 * t < 2 * td THEN p + ((q - p) * (2 * td - 3 * t) * 2) \div td
       ELSE p

\* hsl_to_rgb for the hue hn/hd, saturation s and lightness l
hsl_to_rgb(hn, hd, s, l) ==
    IF s = 0 THEN LET v == ((l * U8Max) \div One) % (U8Max + 1) IN <<v, v, v>>
    ELSE LET q == IF 2 * l < One THEN (l * (One + s)) \div One ELSE l + s - (l * s) \div One
             p == 2 * l - q
             byte(v) == ((v * U8Max) \div One) % (U8Max + 1)
         IN << byte(hue_to_rgb(p, q, 3 * hn + hd, 3 * hd)),
               byte(hue_to_rgb(p, q, 3 * hn, 3 * hd)),
               byte(hue_to_rgb(p, q, 3 * hn - hd, 3 * hd)) >>

\* the animated color and opacity with the visibility test left out
effective_ignores_visibility(shown, s, frame_no) ==
    [color |-> get_color(s), opacity |-> get_opacity(s), nan |-> FALSE]

\* draw_monitor's animated color and opacity at frame frame_no; nan: the opacity
\* is not a number (frame / 0 under Pulse)
effective(shown, s, frame_no) ==
    LET base_color == get_color(s)
        base_opacity == get_opacity(s)
        speed == get_animation_speed(s)
        mode == get_animation_mode(s)
    IN IF ~shown THEN [color |-> <<0, 0, 0>>, opacity |-> 0, nan |-> FALSE]
       ELSE IF mode = 1
       THEN IF speed = 0 THEN [color |-> base_color, opacity |-> 0, nan |-> TRUE]
            ELSE LET pulse == sin_turn(frame_no, speed) IN
                 [color |-> base_color,
                  opacity |-> (base_opacity * (One \div 2 + pulse \div 2)) \div One,
                  nan |-> FALSE]
       ELSE IF mode = 2
       THEN IF speed = 0 THEN [color |-> <<0, 0, 0>>, opacity |-> base_opacity, nan |-> FALSE]
            ELSE [color |-> hsl_to_rgb(f64_fract(f64_div(frame_no, speed)), FracUnit,
                                       One, One \div 2),
                  opacity |-> base_opacity, nan |-> FALSE]
       ELSE IF mode = 3
       THEN LET breathe == IF speed = 0 THEN 0 ELSE sin_turn(frame_no, 2 * speed) IN
            [color |-> base_color,
             opacity |-> (base_opacity * Max(Abs(breathe), One \div 10)) \div One,
             nan |-> FALSE]
       ELSE [color |-> base_color, opacity |-> base_opacity, nan |-> FALSE]

\* the falloff with the square of the progress through the glow
alpha_at_squared(dist, glow, opacity) ==
    IF dist <= 0 THEN 0
    ELSE IF dist > glow * One THEN opacity
    ELSE LET glow_progress == dist \div glow
             smooth == (glow_progress * glow_progress) \div One
         IN (opacity * smooth) \div One

\* the alpha of a pixel at distance dist (steps) for a glow of glow pixels
alpha_at(dist, glow, opacity) ==
    IF dist <= 0 THEN 0
    ELSE IF dist > glow * One THEN opacity
    ELSE LET glow_progress == dist \div glow
             smooth == (((glow_progress * glow_progress) \div One) * glow_progress) \div One
         IN (opacity * smooth) \div One

\* the four bytes <<a, r, g, b>> written for a pixel of that alpha
pixel_of(alpha, nan, color) ==
    IF ~nan /\ alpha * 1000 > One
    THEN LET a == (alpha * U8Max) \div One
             chan(v) == ((v * a) \div U8Max) % (U8Max + 1)
         IN << a % (U8Max + 1), chan(color[1]), chan(color[2]), chan(color[3]) >>
    ELSE <<0, 0, 0, 0>>

\* the canvas draw_monitor fills, pixel by pixel in row order
canvas_of(width, height, s, shown, frame_no) ==
    LET e == effective(shown, s, frame_no)
        thickness == get_thickness(s)
        glow == get_glow(s)
        corner_radius == (thickness * get_corner_radius(s))
    IN [ i \in 1..(width * height) |->
           LET x == (i - 1) % width
               y == (i - 1) \div width
               dist == distance_to_inner_rounded_border(x, y, width, height,
                                                        thickness + glow, corner_radius)
           IN pixel_of(alpha_at(dist, glow, e.opacity), e.nan /\ dist > 0, e.color) ]

\* RingLight::draw_monitor: nothing for an unknown or zero-sized surface, else the
\* canvas is filled, damaged, attached and committed with a new frame callback
draw_monitor(mons, s) ==
    IF s \notin DOMAIN mons \/ mons[s].width = 0 \/ mons[s].height = 0
    THEN mons
    ELSE LET monitor_enabled == is_monitor_enabled(registry, mons[s].output_name)
             shown == is_visible(ipc) /\ monitor_enabled
         IN [mons EXCEPT ![s].attached = TRUE,
                         ![s].callbacks = @ + 1,
                         ![s].damage = <<mons[s].width, mons[s].height>>,
                         ![s].buffer = canvas_of(mons[s].width, mons[s].height, ipc,
                                                 shown, clock)]

InitSurf ==
    /\ ipc = DefaultIpc
    /\ IdleServer /\ IdleHarness /\ IdleDisk
    /\ phase = "roundtrip"
    /\ outputs = NoMap /\ output_names = NoMap /\ monitors = NoMap
    /\ registry = <<>>
    /\ clock = 0
    /\ last = NoEvent

Dispatching == phase \in {"roundtrip", "loop"}
\* what the handlers of the dispatch thread leave alone
NotSurf == <<ipc, running, conn, sent, harness, disk, clock>>

\* OutputHandler::new_output, called when an output's description is complete
new_output(o, info) ==
    /\ Dispatching
    /\ o \notin DOMAIN outputs
    /\ \A p \in DOMAIN outputs : connector_of(p, outputs[p]) # connector_of(o, info)
    /\ FreeSurfaces(monitors) # {}
    /\ LET connector == connector_of(o, info)
           st == create_ring_for_output([monitors |-> monitors, registry |-> registry],
                                        connector, display_name_of(info, connector))
       IN /\ outputs' = Insert(outputs, o, info)
          /\ output_names' = Insert(output_names, o, connector)
          /\ monitors' = st.monitors
          /\ registry' = st.registry
          /\ last' = [ev |-> "new_output", id |-> connector]
    /\ UNCHANGED <<phase, NotSurf>>

\* main after the initial roundtrip: a ring for every output OutputState lists
RECURSIVE enumerate_outputs(_, _)
enumerate_outputs(st, os) ==
    IF os = {} THEN st
    ELSE LET o == CHOOSE x \in os : \A y \in os : x <= y
             connector == connector_of(o, outputs[o])
             next == create_ring_for_output([monitors |-> st.monitors, registry |-> st.registry],
                                            connector, display_name_of(outputs[o], connector))
         IN enumerate_outputs([monitors |-> next.monitors, registry |-> next.registry,
                               output_names |-> Insert(st.output_names, o, connector)],
                              os \ {o})

StartupEnumerate ==
    /\ phase = "roundtrip"
    /\ Cardinality(FreeSurfaces(monitors)) >= Cardinality(DOMAIN outputs)
    /\ LET st == enumerate_outputs([monitors |-> monitors, registry |-> registry,
                                    output_names |-> output_names], DOMAIN outputs)
       IN /\ monitors' = st.monitors
          /\ registry' = st.registry
          /\ output_names' = st.output_names
    /\ phase' = "loop"
    /\ last' = [ev |-> "enumerate"]
    /\ UNCHANGED <<outputs, NotSurf>>

\* output_destroyed with the retain predicate inverted
output_destroyed_keeps_rings(o) ==
    /\ Dispatching
    /\ o \in DOMAIN outputs
    /\ outputs' = Remove(outputs, o)
    /\ IF o \in DOMAIN output_names
       THEN LET name == output_names[o] IN
            /\ output_names' = Remove(output_names, o)
            /\ registry' = remove_monitor(registry, name)
            /\ monitors' = [s \in { t \in DOMAIN monitors : monitors[t].output_name = name }
                               |-> monitors[s]]
       ELSE UNCHANGED <<output_names, registry, monitors>>
    /\ last' = [ev |-> "output_destroyed", id |-> connector_of(o, outputs[o])]
    /\ UNCHANGED <<phase, NotSurf>>

\* OutputHandler::output_destroyed
output_destroyed(o) ==
    /\ Dispatching
    /\ o \in DOMAIN outputs
    /\ outputs' = Remove(outputs, o)
    /\ IF o \in DOMAIN output_names
       THEN LET name == output_names[o] IN
            /\ output_names' = Remove(output_names, o)
            /\ registry' = remove_monitor(registry, name)
            /\ monitors' = [s \in { t \in DOMAIN monitors : monitors[t].output_name # name }
                               |-> monitors[s]]
       ELSE UNCHANGED <<output_names, registry, monitors>>
    /\ last' = [ev |-> "output_destroyed", id |-> connector_of(o, outputs[o])]
    /\ UNCHANGED <<phase, NotSurf>>

\* LayerShellHandler::configure
configure(s, new_size) ==
    /\ Dispatching
    /\ s \in DOMAIN monitors
    /\ monitors[s].callbacks < MaxCallbacks
    /\ monitors' = draw_monitor([monitors EXCEPT ![s].width = new_size[1],
                                                 ![s].height = new_size[2],
                                                 ![s].first_configure = FALSE], s)
    /\ last' = [ev |-> "configure", surface |-> s]
    /\ UNCHANGED <<phase, outputs, output_names, registry, NotSurf>>

\* CompositorHandler::frame: one outstanding callback fires
frame(s) ==
    /\ Dispatching
    /\ s \in DOMAIN monitors
    /\ monitors[s].callbacks > 0
    /\ monitors' = draw_monitor([monitors EXCEPT ![s].callbacks = @ - 1], s)
    /\ last' = [ev |-> "frame", surface |-> s]
    /\ UNCHANGED <<phase, outputs, output_names, registry, NotSurf>>

\* closed without the is_empty check
closed_without_exit(s) ==
    /\ Dispatching
    /\ s \in DOMAIN monitors
    /\ monitors' = Remove(monitors, s)
    /\ phase' = phase
    /\ last' = [ev |-> "closed", surface |-> s]
    /\ UNCHANGED <<outputs, output_names, registry, NotSurf>>

\* LayerShellHandler::closed
closed(s) ==
    /\ Dispatching
    /\ s \in DOMAIN monitors
    /\ monitors' = Remove(monitors, s)
    /\ phase' = IF DOMAIN monitors' = {} THEN "exited" ELSE phase
    /\ last' = [ev |-> "closed", surface |-> s]
    /\ UNCHANGED <<outputs, output_names, registry, NotSurf>>

NextSurf ==
    \/ \E o \in OutputIds, info \in InfoSample : new_output(o, info)
    \/ StartupEnumerate
    \/ \E o \in OutputIds : output_destroyed(o)
    \/ \E s \in SurfaceIds, new_size \in SizeSample : configure(s, new_size)
    \/ \E s \in SurfaceIds : frame(s)
    \/ \E s \in SurfaceIds : closed(s)
SpecSurf == InitSurf /\ [][NextSurf]_vars

(***************************************************************************)
(* SpecDraw: one output, its surface, the frame clock, and the two ways    *)
(* the tray hides a ring: the Show/Hide item and a display's checkmark.     *)
(***************************************************************************)
MaxClock == 3
Orange == <<"f","f","8","0","0","0">>
\* configurations a config file or the command line can give at startup
DrawConfigs ==
    { Config_default,
      [Config_default EXCEPT !.color = Orange, !.thickness = 1, !.glow = 1, !.corner_radius = 0],
      [Config_default EXCEPT !.color = Orange, !.thickness = 1, !.glow = 1, !.opacity = One \div 2,
                             !.animation = <<"p","u","l","s","e">>, !.animation_speed = 4],
      [Config_default EXCEPT !.thickness = 0, !.glow = 2,
                             !.animation = <<"r","a","i","n","b","o","w">>, !.animation_speed = 6],
      [Config_default EXCEPT !.color = Orange, !.thickness = 2, !.glow = 0, !.opacity = 2 * One,
                             !.animation = <<"b","r","e","a","t","h","e">>, !.animation_speed = 4] }
DrawSizes == { <<0, 0>>, <<2, 2>>, <<6, 5>> }
DrawInfo == [name |-> "DP-1", make |-> "Dell", model |-> "U2720Q"]

InitDraw ==
    /\ cfg \in DrawConfigs
    /\ ipc = main_state(cfg)
    /\ file = NoFile /\ saving = NoSave /\ listener = "bound" /\ endpoint = OwnEndpoint /\ second = NoSecond
    /\ IdleServer /\ IdleHarness
    /\ phase = "loop"
    /\ outputs = NoMap /\ output_names = NoMap /\ monitors = NoMap
    /\ registry = <<>>
    /\ clock = 0
    /\ last = NoEvent

\* time passes: start_time.elapsed() reaches the next sixtieth of a second
Tick ==
    /\ clock < MaxClock
    /\ clock' = clock + 1
    /\ UNCHANGED <<ipc, running, conn, sent, harness, disk,
                   phase, outputs, output_names, monitors, registry, last>>

\* the tray's Show/Hide item: flip visible, then save_to_config (a failed save
\* only prints a warning)
TrayToggleVisible(saved) ==
    /\ running /\ phase # "exited"
    /\ ipc' = set_visible(ipc, ~is_visible(ipc))
    /\ file' = IF saved THEN save_to_config(ipc', file) ELSE file
    /\ UNCHANGED <<cfg, saving, listener, endpoint, second>>
    /\ UNCHANGED <<running, conn, sent, harness, surf>>

\* the registry's toggle of one entry's enabled flag
ipc_toggle_monitor(reg, id) ==
    [i \in DOMAIN reg |->
        IF reg[i].id = id THEN [reg[i] EXCEPT !.enabled = ~@] ELSE reg[i]]

\* SharedState::toggle_monitor, from a checkmark of the tray's Monitors submenu
toggle_monitor(id, saved) ==
    /\ running /\ phase # "exited"
    /\ \E i \in DOMAIN registry : registry[i].id = id
    /\ registry' = ipc_toggle_monitor(registry, id)
    /\ file' = IF saved THEN save_to_config(ipc, file) ELSE file
    /\ UNCHANGED <<cfg, saving, listener, endpoint, second>>
    /\ UNCHANGED <<ipc, running, conn, sent, harness,
                   phase, outputs, output_names, monitors, clock, last>>

NextDraw ==
    \/ \E o \in {1} : new_output(o, DrawInfo)
    \/ \E s \in {1}, new_size \in DrawSizes : configure(s, new_size)
    \/ \E s \in {1} : frame(s)
    \/ Tick
    \/ \E saved \in BOOLEAN : TrayToggleVisible(saved)
    \/ \E saved \in BOOLEAN : toggle_monitor(DrawInfo.name, saved)
SpecDraw == InitDraw /\ [][NextDraw]_vars

(***************************************************************************)
(* SpecCfg: the config file and everything that reads or writes it: main   *)
(* at startup, save_to_config on the tray thread (a load and a write, two  *)
(* file operations), and the configuration TUI, a process of its own.      *)
(* Control commands arrive on one connection.                              *)
(***************************************************************************)
Bottom == <<"b","o","t","t","o","m">>
Left == <<"l","e","f","t">>
\* what main may find at startup
CfgFiles == { NoFile, [Config_default EXCEPT !.thickness = 40, !.bar_height = 50, !.bar_position = Bottom] }
\* what the TUI's Save Config writes: its own Config, bar settings as edited there
TuiConfigs == { [Config_default EXCEPT !.bar_height = 20, !.bar_position = Left] }
CfgLines == { Cmd("SetThickness", 120), Cmd("SetColor", Red) }
\* the tray items modelled here: Show/Hide and one of the four width presets
WidthPresets == <<40, 80, 120, 160>>
TrayItems == { [kind |-> "visible", idx |-> 0], [kind |-> "width", idx |-> 3] }

InitCfg ==
    /\ file \in CfgFiles
    /\ cfg = Config_load(file)
    /\ ipc = main_state(cfg)
    /\ saving = NoSave /\ listener = "bound" /\ endpoint = OwnEndpoint /\ second = NoSecond
    /\ IdleServer /\ IdleSurf /\ IdleHarness

\* an activate/select closure of the tray menu up to save_to_config's Config::load
TrayActivate(item) ==
    /\ running /\ saving = NoSave
    /\ ipc' = IF item.kind = "visible" THEN set_visible(ipc, ~is_visible(ipc))
              ELSE set_thickness(ipc, WidthPresets[item.idx + 1])
    /\ saving' = [existing |-> Config_load(file)]
    /\ UNCHANGED <<running, conn, sent, harness, file, cfg, listener, endpoint, second, surf>>

\* the rest of save_to_config: build the Config from the store, Config::save
\* (a failed save only prints a warning)
SaveWrite(ok) ==
    /\ running /\ saving # NoSave
    /\ file' = IF ok THEN config_snapshot(ipc, saving.existing) ELSE file
    /\ saving' = NoSave
    /\ UNCHANGED <<ipc, running, conn, sent, harness, cfg, listener, endpoint, second, surf>>

\* Save Config in the TUI (`hypr-ringlight config`)
TuiSave(c) ==
    /\ file' = c
    /\ UNCHANGED <<ipc, running, conn, sent, harness, cfg, saving, listener, endpoint, second, surf>>

\* the tray's Quit item
TrayQuit ==
    /\ running /\ saving = NoSave
    /\ running' = FALSE
    /\ UNCHANGED <<ipc, conn, sent, harness, disk, surf>>

\* the program is started again, no option on its command line
Restart ==
    /\ ~running
    /\ running' = TRUE
    /\ cfg' = Config_load(file)
    /\ ipc' = main_state(cfg')
    /\ saving' = NoSave
    /\ conn' = [c \in Conns |-> NoConn]
    /\ sent' = <<>>
    /\ UNCHANGED <<harness, file, listener, endpoint, second, surf>>

NextCfg ==
    \/ \E item \in TrayItems : TrayActivate(item)
    \/ \E ok \in BOOLEAN : SaveWrite(ok)
    \/ \E c \in TuiConfigs : TuiSave(c)
    \/ TrayQuit
    \/ Restart
    \/ \E c \in {1} :
        \/ Connect(c)
        \/ \E l \in CfgLines : Send(c, l)
        \/ ReadLine(c)
        \/ SetColorStore(c)
SpecCfg == InitCfg /\ [][NextCfg]_vars

(***************************************************************************)
(* SpecBind: main from the call of start_server on, with a bind that may    *)
(* fail, one output, and one client of the control channel.                *)
(***************************************************************************)
BindLines == { Cmd("SetThickness", 40), Cmd("SetVisible", FALSE) }
BindSizes == { <<0, 0>>, <<2, 2>> }

InitBind ==
    /\ ipc = DefaultIpc
    /\ IdleServer /\ IdleHarness
    /\ file = NoFile /\ cfg = Config_default /\ saving = NoSave
    /\ listener = "none" /\ endpoint = NoEndpoint /\ second = NoSecond
    /\ phase = "init"
    /\ outputs = NoMap /\ output_names = NoMap /\ monitors = NoMap
    /\ registry = <<>>
    /\ clock = 0
    /\ last = NoEvent

\* start_server ending the process when the bind fails
start_server_exits_on_failure(ok) ==
    /\ phase = "init"
    /\ listener' = IF ok THEN "bound" ELSE "failed"
    /\ endpoint' = IF ok THEN OwnEndpoint ELSE NoEndpoint
    /\ running' = ok
    /\ phase' = "roundtrip"
    /\ UNCHANGED <<ipc, conn, sent, harness, file, cfg, saving, second,
                   outputs, output_names, monitors, registry, clock, last>>

\* start_server: bind, and on success spawn the accept thread; on failure print
\* and return.  main goes on to the Wayland connection and the first roundtrip
start_server(ok) ==
    /\ phase = "init"
    /\ listener' = IF ok THEN "bound" ELSE "failed"
    /\ endpoint' = IF ok THEN OwnEndpoint ELSE NoEndpoint
    /\ running' = running
    /\ phase' = "roundtrip"
    /\ UNCHANGED <<ipc, conn, sent, harness, file, cfg, saving, second,
                   outputs, output_names, monitors, registry, clock, last>>

NextBind ==
    \/ \E ok \in BOOLEAN : start_server(ok)
    \/ \E o \in {1} : new_output(o, DrawInfo)
    \/ StartupEnumerate
    \/ \E s \in {1, 2}, new_size \in BindSizes : configure(s, new_size)
    \/ \E s \in {1, 2} : frame(s)
    \/ \E c \in {1} :
        \/ Connect(c)
        \/ \E l \in BindLines : Send(c, l)
        \/ ReadLine(c)
SpecBind == InitBind /\ [][NextBind]_vars

(***************************************************************************)
(* SpecEndpoint: start_server statement by statement, in this instance and *)
(* in a second one started by the same user, and clients of the owning     *)
(* user and of another user connecting to socket_path().                   *)
(***************************************************************************)
EndpointLines == { Cmd("SetThickness", 40) }
Umasks == { "022", "000" }
Users == { "owner", "other" }
Instances == {1, 2}

\* socket_path: $XDG_RUNTIME_DIR/hypr-ringlight.sock, or /tmp/hypr-ringlight.sock
\* when the variable is not set
socket_path(xdg_set) == IF xdg_set THEN "runtime" ELSE "tmp"

\* the mode bind(2) gives the socket file: 0777 & ~umask
ModeUnder(mask) == IF mask = "022" THEN "0755" ELSE "0777"

\* connect(2) needs search permission on the directory (XDG_RUNTIME_DIR is the
\* user's own, /tmp is everyone's) and write permission on the socket file
MayConnect(uid, e) ==
    \/ uid = "owner"
    \/ e.dir = "tmp" /\ e.mode = "0777"

InitEndpoint ==
    /\ ipc = DefaultIpc
    /\ IdleServer /\ IdleHarness
    /\ file = NoFile /\ cfg = Config_default /\ saving = NoSave
    /\ listener = "none"
    /\ \E xdg_set \in BOOLEAN : endpoint = [NoEndpoint EXCEPT !.dir = socket_path(xdg_set)]
    /\ second = NoSecond
    /\ phase = "init"
    /\ outputs = NoMap /\ output_names = NoMap /\ monitors = NoMap
    /\ registry = <<>>
    /\ clock = 0
    /\ last = NoEvent

\* where instance i is in start_server
at(i) == IF i = 1 THEN listener ELSE second.pc

\* instance i moves on in start_server; this instance's main goes on to the
\* Wayland connection when start_server returns
goto(i, pc) ==
    IF i = 1
    THEN /\ listener' = pc
         /\ phase' = IF pc \in {"bound", "failed"} THEN "roundtrip" ELSE phase
         /\ UNCHANGED second
    ELSE /\ second' = [second EXCEPT !.pc = pc]
         /\ UNCHANGED <<listener, phase>>

\* the user starts the program again: main up to the call of start_server.
\* after: this instance's accept loop was already running then
StartSecond ==
    /\ running
    /\ second.pc = "off"
    /\ second' = [pc |-> "none", ipc |-> main_state(cfg), after |-> listener = "bound"]
    /\ UNCHANGED <<ipc, running, conn, sent, harness, file, cfg, saving, listener,
                   endpoint, surf>>

\* start_server without its remove_file
remove_file_skipped(i) ==
    /\ at(i) = "none"
    /\ i = 1 => phase = "init"
    /\ endpoint' = endpoint
    /\ goto(i, "unlinked")
    /\ UNCHANGED <<ipc, running, conn, sent, harness, file, cfg, saving,
                   outputs, output_names, monitors, registry, clock, last>>

\* let _ = std::fs::remove_file(&path): whatever file is there goes; a listener
\* it named stays open but no connect reaches it any more
remove_file(i) ==
    /\ at(i) = "none"
    /\ i = 1 => phase = "init"
    /\ endpoint' = [endpoint EXCEPT !.owner = 0, !.mode = "none"]
    /\ goto(i, "unlinked")
    /\ UNCHANGED <<ipc, running, conn, sent, harness, file, cfg, saving,
                   outputs, output_names, monitors, registry, clock, last>>

\* UnixListener::bind(&path): creates the socket file under the process's umask
\* and listens; Err (the path exists again) is printed and start_server returns
bind(i, mask) ==
    /\ at(i) = "unlinked"
    /\ IF endpoint.owner = 0
       THEN /\ endpoint' = [endpoint EXCEPT !.owner = i, !.mode = ModeUnder(mask)]
            /\ goto(i, "listening")
       ELSE /\ endpoint' = endpoint
            /\ goto(i, "failed")
    /\ UNCHANGED <<ipc, running, conn, sent, harness, file, cfg, saving,
                   outputs, output_names, monitors, registry, clock, last>>

\* let _ = set_permissions(&path, 0o600), its result dropped, then the accept
\* loop is spawned.  The call names the path, whose file it may be
set_permissions(i, ok) ==
    /\ at(i) = "listening"
    /\ endpoint' = IF ok /\ endpoint.owner # 0 THEN [endpoint EXCEPT !.mode = "0600"]
                   ELSE endpoint
    /\ goto(i, "bound")
    /\ UNCHANGED <<ipc, running, conn, sent, harness, file, cfg, saving,
                   outputs, output_names, monitors, registry, clock, last>>

\* UnixStream::connect(socket_path()) by a client of user uid: the kernel
\* queues it on the listener the file names, whose accept loop takes it
ConnectPath(c, uid) ==
    /\ conn[c].st = "free"
    /\ \A d \in Conns : d < c => conn[d].st # "free"
    /\ conn' = [conn EXCEPT ![c].st = IF endpoint.owner # 0 /\ MayConnect(uid, endpoint)
                                      THEN "open" ELSE "refused",
                            ![c].srv = IF endpoint.owner # 0 THEN endpoint.owner ELSE @,
                            ![c].uid = uid]
    /\ UNCHANGED <<ipc, running, sent, harness, disk, surf>>

\* handle_client in the second instance, for the lines of EndpointLines: the same
\* code on that process's own IpcState
ReadLineSecond(c) ==
    /\ second.pc = "bound"
    /\ conn[c].st = "open" /\ conn[c].srv = 2
    /\ conn[c].pc = "read" /\ conn[c].inq # <<>>
    /\ LET l == Head(conn[c].inq) IN
       second' = [second EXCEPT !.ipc = CASE l.cmd = "SetThickness" -> set_thickness(@, l.value)
                                          [] l.cmd = "SetVisible" -> set_visible(@, l.value)]
    /\ conn' = [conn EXCEPT ![c].inq = Tail(@)]
    /\ UNCHANGED <<ipc, running, sent, harness, file, cfg, saving, listener, endpoint, surf>>

NextEndpoint ==
    \/ StartSecond
    \/ \E i \in Instances : remove_file(i)
    \/ \E i \in Instances, mask \in Umasks : bind(i, mask)
    \/ \E i \in Instances, ok \in BOOLEAN : set_permissions(i, ok)
    \/ \E o \in {1} : new_output(o, DrawInfo)
    \/ StartupEnumerate
    \/ \E s \in {1} : configure(s, <<2, 2>>)
    \/ \E s \in {1} : frame(s)
    \/ \E c \in Conns :
        \/ \E uid \in Users : ConnectPath(c, uid)
        \/ \E l \in EndpointLines : Send(c, l)
        \/ ReadLine(c)
        \/ ReadLineSecond(c)
SpecEndpoint == InitEndpoint /\ [][NextEndpoint]_vars

(***************************************************************************)
(* SpecMon: the monitor commands of the control channel, on the registry   *)
(* that new_output and output_destroyed fill and empty.                    *)
(***************************************************************************)
GetMonitors == [cmd |-> "GetMonitors"]
MonInfo == { DrawInfo, [name |-> "HDMI-A-1", make |-> "", model |-> ""] }
MonitorLines ==
    { Cmd("SetMonitorEnabled", [id |-> "DP-1", enabled |-> FALSE]),
      Cmd("SetMonitorEnabled", [id |-> "DP-1", enabled |-> TRUE]),
      Cmd("SetMonitorEnabled", [id |-> "HDMI-A-1", enabled |-> FALSE]),
      GetMonitors }

\* the registry's set of one entry's enabled flag, applied to every entry
set_monitor_enabled_every_entry(reg, id, enabled) ==
    [i \in DOMAIN reg |-> [reg[i] EXCEPT !.enabled = enabled]]

\* the registry's set of one entry's enabled flag; no entry, no change
set_monitor_enabled(reg, id, enabled) ==
    [i \in DOMAIN reg |->
        IF reg[i].id = id THEN [reg[i] EXCEPT !.enabled = enabled] ELSE reg[i]]

\* the registry snapshot: id, display name and enabled flag of every entry
get_monitors(reg) == reg

\* one iteration of handle_client's loop for the two monitor commands
ReadMonitorLine(c) ==
    /\ HasLine(c)
    /\ LET l == Head(conn[c].inq) IN
       CASE l.cmd = "SetMonitorEnabled" ->
               /\ registry' = set_monitor_enabled(registry, l.value.id, l.value.enabled)
               /\ conn' = [conn EXCEPT ![c].inq = Tail(@)]
         [] l.cmd = "GetMonitors" ->
               /\ registry' = registry
               /\ conn' = [conn EXCEPT ![c].inq = Tail(@),
                                       ![c].out = Append(@, get_monitors(registry))]
    /\ UNCHANGED <<ipc, running, sent, harness, disk,
                   phase, outputs, output_names, monitors, clock, last>>

NextMon ==
    \/ \E o \in OutputIds, info \in MonInfo : new_output(o, info)
    \/ \E o \in OutputIds : output_destroyed(o)
    \/ \E c \in Conns :
        \/ Connect(c)
        \/ \E l \in MonitorLines : Send(c, l)
        \/ ReadMonitorLine(c)
SpecMon == InitCtl /\ [][NextMon]_vars

(***************************************************************************)
(* SpecReg: the registry alone, under the three calls SharedState and      *)
(* RingLight make on it, for two connectors and two display names.         *)
(***************************************************************************)
RegIds == { "DP-1", "HDMI-A-1" }
RegNames == { <<"A">>, <<"B">> }

\* the registry's entry for id, as a set: empty or one entry
entry_of(reg, id) == { reg[i] : i \in { j \in DOMAIN reg : reg[j].id = id } }

\* SharedState::add_monitor dropping the entry and adding a new one
SharedState_add_monitor_replaces(id, display_name) ==
    /\ registry' = add_monitor(remove_monitor(registry, id), id, display_name)
    /\ last' = [ev |-> "add_monitor", id |-> id, display_name |-> display_name,
                was |-> entry_of(registry, id)]
    /\ UNCHANGED <<phase, outputs, output_names, monitors, NotSurf>>

\* SharedState::add_monitor: self.ipc.add_monitor(id, display_name)
SharedState_add_monitor(id, display_name) ==
    /\ registry' = add_monitor(registry, id, display_name)
    /\ last' = [ev |-> "add_monitor", id |-> id, display_name |-> display_name,
                was |-> entry_of(registry, id)]
    /\ UNCHANGED <<phase, outputs, output_names, monitors, NotSurf>>

\* SharedState::toggle_monitor's call of the registry
SharedState_toggle_monitor(id) ==
    /\ registry' = ipc_toggle_monitor(registry, id)
    /\ last' = [ev |-> "toggle_monitor", id |-> id]
    /\ UNCHANGED <<phase, outputs, output_names, monitors, NotSurf>>

\* SharedState::remove_monitor
SharedState_remove_monitor(id) ==
    /\ registry' = remove_monitor(registry, id)
    /\ last' = [ev |-> "remove_monitor", id |-> id]
    /\ UNCHANGED <<phase, outputs, output_names, monitors, NotSurf>>

NextReg ==
    \E id \in RegIds :
        \/ \E display_name \in RegNames : SharedState_add_monitor(id, display_name)
        \/ SharedState_toggle_monitor(id)
        \/ SharedState_remove_monitor(id)
SpecReg == InitCtl /\ [][NextReg]_vars

(***************************************************************************)
(* SpecAlpha: the alpha draw_monitor computes for one pixel, as a function *)
(* of the surface size and the store, and its falloff as a function of the *)
(* signed distance.                                                        *)
(***************************************************************************)
AlphaConfigs ==
    { [Config_default EXCEPT !.thickness = t, !.glow = g, !.opacity = o, !.corner_radius = r] :
        t \in {0, 1, default_thickness}, g \in {0, 1, 2, 4},
        o \in {One \div 2, One}, r \in {0, default_corner_radius} }
AlphaSizes == { <<2, 2>>, <<4, 4>>, <<8, 6>>, <<12, 12>>, <<300, 200>>, <<400, 400>> }
Distances ==
    { 0 - One, 0, 1, One \div 2, One, One + One \div 2, 2 * One, 2 * One + 1,
      3 * One, 4 * One, 4 * One + 1, 100 * One }

\* the alpha of pixel (x, y) in draw_monitor's loop over the canvas
alpha_of_pixel(x, y, width, height, s, shown, frame_no) ==
    LET thickness == get_thickness(s)
        glow == get_glow(s)
        corner_radius == thickness * get_corner_radius(s)
        dist_to_inner == distance_to_inner_rounded_border(x, y, width, height,
                                                          thickness + glow, corner_radius)
    IN alpha_at(dist_to_inner, glow, effective(shown, s, frame_no).opacity)

InitAlpha ==
    /\ cfg \in AlphaConfigs
    /\ ipc = main_state(cfg)
    /\ file = NoFile /\ saving = NoSave /\ listener = "bound"
    /\ endpoint = OwnEndpoint /\ second = NoSecond
    /\ IdleServer /\ IdleSurf
    /\ \E size \in AlphaSizes : inp = [width |-> size[1], height |-> size[2]]
    /\ outp = <<>>
    /\ call = NoCall

\* the loop's alpha for the pixel at the middle of the surface
CenterAlpha ==
    /\ call' = [op |-> "center", arg |-> <<inp.width \div 2, inp.height \div 2>>,
                ret |-> alpha_of_pixel(inp.width \div 2, inp.height \div 2,
                                       inp.width, inp.height, ipc, TRUE, clock)]
    /\ UNCHANGED <<ipc, running, conn, sent, inp, outp, disk, surf>>

\* the loop's alpha for a pixel at signed distance d
AlphaAt(d) ==
    /\ call' = [op |-> "alpha", arg |-> d,
                ret |-> alpha_at(d, get_glow(ipc), effective(TRUE, ipc, clock).opacity)]
    /\ UNCHANGED <<ipc, running, conn, sent, inp, outp, disk, surf>>

NextAlpha ==
    \/ CenterAlpha
    \/ \E d \in Distances : AlphaAt(d)
SpecAlpha == InitAlpha /\ [][NextAlpha]_vars

(***************************************************************************)
(* SpecHue: the Rainbow branch of draw_monitor's animation match, frame by *)
(* frame, for several speeds.                                              *)
(***************************************************************************)
MaxFrame == 24
HueSpeeds == {1, 3, 5, 6, 8}
HueConfigs ==
    { [Config_default EXCEPT !.animation = <<"r","a","i","n","b","o","w">>,
                             !.animation_speed = v, !.opacity = o] :
        v \in HueSpeeds, o \in {One \div 2, One} }

InitHue ==
    /\ cfg \in HueConfigs
    /\ ipc = main_state(cfg)
    /\ file = NoFile /\ saving = NoSave /\ listener = "bound"
    /\ endpoint = OwnEndpoint /\ second = NoSecond
    /\ IdleServer /\ IdleSurf /\ IdleHarness

\* draw_monitor's color and opacity for a visible ring at frame frame_no
Animate(frame_no) ==
    /\ call' = [op |-> "animate", arg |-> frame_no, ret |-> effective(TRUE, ipc, frame_no)]
    /\ UNCHANGED <<ipc, running, conn, sent, inp, outp, disk, surf>>

NextHue == \E frame_no \in 0..MaxFrame : Animate(frame_no)
SpecHue == InitHue /\ [][NextHue]_vars

(***************************************************************************)
(* SpecMargin: surfaces created under the bar settings main has loaded.    *)
(***************************************************************************)
BarPositions ==
    { <<"t","o","p">>, <<"b","o","t","t","o","m">>, <<"L","e","f","t">>, <<"R","I","G","H","T">>,
      <<"c","e","n","t","e","r">>, <<>> }
BarHeights == { 0, default_bar_height }
MarginConfigs ==
    { [Config_default EXCEPT !.bar_position = p, !.bar_height = b] :
        p \in BarPositions, b \in BarHeights }

InitMargin ==
    /\ cfg \in MarginConfigs
    /\ ipc = main_state(cfg)
    /\ file = NoFile /\ saving = NoSave /\ listener = "bound"
    /\ endpoint = OwnEndpoint /\ second = NoSecond
    /\ IdleServer /\ IdleHarness
    /\ phase = "roundtrip"
    /\ outputs = NoMap /\ output_names = NoMap /\ monitors = NoMap
    /\ registry = <<>>
    /\ clock = 0
    /\ last = NoEvent

NextMargin ==
    \/ \E o \in OutputIds, info \in MonInfo : new_output(o, info)
    \/ StartupEnumerate
    \/ \E o \in OutputIds : output_destroyed(o)
    \/ \E s \in SurfaceIds : configure(s, <<2, 2>>)
SpecMargin == InitMargin /\ [][NextMargin]_vars

(***************************************************************************)
(* SpecFair: the control channel with the handler threads scheduled        *)
(* fairly: a handler that can read a line, or has seen the end of its      *)
(* stream, does so at some time.  Clients write and close when they like.  *)
(***************************************************************************)
FairLines == { Cmd("SetThickness", 40), Cmd("SetGlow", 0), NotJson, NotUtf8, Quit }

NextFair ==
    \E c \in Conns :
        \/ Connect(c)
        \/ \E l \in FairLines : Send(c, l)
        \/ ClientClose(c)
        \/ ReadLine(c)
        \/ ReadEof(c)
SpecFair ==
    /\ InitCtl /\ [][NextFair]_vars
    /\ \A c \in Conns : WF_vars(ReadLine(c)) /\ WF_vars(ReadEof(c))

(***************************************************************************)
(* SpecFixed: one thread sets opacity and corner radius to reals of every  *)
(* kind the cast distinguishes, answers GetState and saves the config.     *)
(***************************************************************************)
FixedOps == {"opacity", "corner_radius"}
FixedSample ==
    { -SubMilli, 0, 1, 500 * SubMilli + 3, One + SubMilli + 9,
      u32_MAX * SubMilli, (u32_MAX + 5) * SubMilli + 3 }

InitFixed ==
    /\ ipc = DefaultIpc
    /\ IdleServer /\ IdleSurf /\ IdleDisk
    /\ IdleHarness

\* set_opacity / set_corner_radius (the SetOpacity and SetCornerRadius arms
\* call nothing else), followed by the field's getter
SetReal ==
    \E op \in FixedOps, v \in FixedSample :
        LET s == IF op = "opacity" THEN set_opacity(ipc, v) ELSE set_corner_radius(ipc, v)
        IN /\ ipc' = s
           /\ call' = [op |-> op, arg |-> v,
                       ret |-> IF op = "opacity" THEN get_opacity(s) ELSE get_corner_radius(s)]
           /\ UNCHANGED <<running, conn, sent, inp, outp, disk, surf>>

\* the GetState arm with no other thread storing: the State it replies
GetStateReply ==
    /\ outp' = << StateOf([i \in DOMAIN GetFields |-> ipc[GetFields[i]]]) >>
    /\ UNCHANGED <<ipc, running, conn, sent, inp, call, disk, surf>>

\* IpcState::save_to_config
SaveFixed ==
    /\ file' = save_to_config(ipc, file)
    /\ UNCHANGED <<ipc, running, conn, sent, harness, cfg, saving, listener, endpoint, second, surf>>

NextFixed ==
    \/ SetReal
    \/ GetStateReply
    \/ SaveFixed
SpecFixed == InitFixed /\ [][NextFixed]_vars

(***************************************************************************)
(* SpecPixel: the four bytes draw_monitor packs for one pixel, for the     *)
(* opacities and colors the setters store.                                 *)
(***************************************************************************)
PixelOpacities == {0, One \div 2, One, One + One \div 5, 2 * One}
PixelColors == {<<255, 255, 255>>, <<255, 128, 0>>, <<137, 180, 250>>}
PixelConfigs ==
    { [Config_default EXCEPT !.thickness = 1, !.glow = 2, !.corner_radius = 0],
      [Config_default EXCEPT !.thickness = 0, !.glow = 4] }
PixelWidth == 8
PixelHeight == 6

InitPixel ==
    /\ cfg \in PixelConfigs
    /\ ipc = main_state(cfg)
    /\ file = NoFile /\ saving = NoSave /\ listener = "bound"
    /\ endpoint = OwnEndpoint /\ second = NoSecond
    /\ IdleServer /\ IdleSurf /\ IdleHarness

\* the SetOpacity arm
PixelSetOpacity(v) ==
    /\ ipc' = set_opacity(ipc, v)
    /\ UNCHANGED <<running, conn, sent, harness, disk, surf>>

\* the SetColor arm, its three stores with no draw between them
PixelSetColor(c) ==
    /\ ipc' = set_color(ipc, c[1], c[2], c[3])
    /\ UNCHANGED <<running, conn, sent, harness, disk, surf>>

\* one round of draw_monitor's loop: the alpha of pixel (x, y) and its bytes
DrawPixel(x, y) ==
    LET e == effective(TRUE, ipc, clock)
        alpha == alpha_of_pixel(x, y, PixelWidth, PixelHeight, ipc, TRUE, clock)
    IN /\ call' = [op |-> "pixel", arg |-> <<x, y>>,
                   ret |-> [alpha |-> alpha, bytes |-> pixel_of(alpha, e.nan, e.color)]]
       /\ UNCHANGED <<ipc, running, conn, sent, inp, outp, disk, surf>>

NextPixel ==
    \/ \E v \in PixelOpacities : PixelSetOpacity(v)
    \/ \E c \in PixelColors : PixelSetColor(c)
    \/ \E x \in 0..(PixelWidth - 1), y \in 0..(PixelHeight - 1) : DrawPixel(x, y)
SpecPixel == InitPixel /\ [][NextPixel]_vars

(***************************************************************************)
(* SpecOrder: one client calls send_command with a SetColor several times, *)
(* one call after the other; the server runs one handler thread for each   *)
(* connection it accepted.                                                 *)
(***************************************************************************)
Blue == <<"0","0","0","0","f","f">>
OrderLines == { Cmd("SetColor", Red), Cmd("SetColor", Blue) }

\* send_command for a command other than GetState: connect, write the line,
\* return, which drops the stream
send_command(c, l) ==
    /\ running /\ listener = "bound"
    /\ conn[c].st = "free"
    /\ \A d \in Conns : d < c => conn[d].st # "free"
    /\ Len(sent) < MaxSends
    /\ conn' = [conn EXCEPT ![c].st = "open", ![c].inq = <<l>>, ![c].eof = TRUE]
    /\ sent' = Append(sent, [conn |-> c, line |-> l])
    /\ UNCHANGED <<ipc, running, harness, disk, surf>>

NextOrder ==
    \E c \in Conns :
        \/ \E l \in OrderLines : send_command(c, l)
        \/ ReadLine(c)
        \/ ReadEof(c)
        \/ SetColorStore(c)
SpecOrder == InitCtl /\ [][NextOrder]_vars

(***************************************************************************)
(* SpecTheme: the SIGUSR2 thread reloads the theme's accent color while a  *)
(* connection thread serves a SetColor; both call set_color.               *)
(***************************************************************************)
MaxReloads == 1
\* accent colors a theme file gives
Accents == { <<"8","9","b","4","f","a">>, <<"0","0","f","f","0","0">> }
ThemeLines == { Cmd("SetColor", Red), Cmd("SetColor", Blue) }

InitTheme ==
    /\ ipc = DefaultIpc
    /\ IdleServer /\ IdleSurf /\ IdleDisk
    /\ inp = NoInput /\ outp = <<>>
    /\ call = [op |-> "wait", arg |-> <<>>, ret |-> 0]

\* the signal thread wakes: get_accent_color, then set_color's first store.
\* call.ret counts the reloads begun, call.arg holds the stores still to do
theme_reload(accent) ==
    LET rgb == parse_hex_color(accent) IN
    /\ running
    /\ call.op = "wait" /\ call.ret < MaxReloads
    /\ ipc' = [ipc EXCEPT !.color_r = rgb[1]]
    /\ call' = [op |-> "set_color", arg |-> <<rgb[2], rgb[3]>>, ret |-> call.ret + 1]
    /\ outp' = <<rgb>>
    /\ UNCHANGED <<running, conn, sent, inp, disk, surf>>

\* set_color's second and third store on the signal thread
theme_store ==
    /\ running
    /\ call.op = "set_color"
    /\ IF Len(call.arg) = 2
       THEN /\ ipc' = [ipc EXCEPT !.color_g = call.arg[1]]
            /\ call' = [call EXCEPT !.arg = Tail(@)]
       ELSE /\ ipc' = [ipc EXCEPT !.color_b = call.arg[1]]
            /\ call' = [call EXCEPT !.arg = <<>>, !.op = "wait"]
    /\ UNCHANGED <<running, conn, sent, inp, outp, disk, surf>>

NextTheme ==
    \/ \E accent \in Accents : theme_reload(accent)
    \/ theme_store
    \/ \E c \in Conns :
          \/ \E l \in ThemeLines : send_command(c, l)
          \/ ReadLine(c)
          \/ ReadEof(c)
          \/ SetColorStore(c)
SpecTheme == InitTheme /\ [][NextTheme]_vars

(***************************************************************************)
(* SpecSpeed: draw_monitor's animation match under the speeds that         *)
(* SetAnimationSpeed stores.                                               *)
(***************************************************************************)
SpeedValues == {0, 1, 4, default_animation_speed}
SpeedConfigs ==
    { [Config_default EXCEPT !.animation = a, !.animation_speed = v] :
        a \in { None, <<"p","u","l","s","e">>, <<"r","a","i","n","b","o","w">>,
                <<"b","r","e","a","t","h","e">> },
        v \in SpeedValues \ {0} }
SpeedFrames == {0, 1, 2, 7}

InitSpeed ==
    /\ cfg \in SpeedConfigs
    /\ ipc = main_state(cfg)
    /\ file = NoFile /\ saving = NoSave /\ listener = "bound"
    /\ endpoint = OwnEndpoint /\ second = NoSecond
    /\ IdleServer /\ IdleSurf /\ IdleHarness

\* the SetAnimationSpeed arm: the value is stored as it came
SetAnimationSpeed(v) ==
    /\ ipc' = set_animation_speed(ipc, v)
    /\ UNCHANGED <<running, conn, sent, harness, disk, surf>>

NextSpeed ==
    \/ \E v \in SpeedValues : SetAnimationSpeed(v)
    \/ \E frame_no \in SpeedFrames : Animate(frame_no)
SpecSpeed == InitSpeed /\ [][NextSpeed]_vars

(***************************************************************************)
(* SpecPayload: connections that carry SetColor with payloads of every     *)
(* kind, each followed on its connection by further commands.              *)
(***************************************************************************)
Payloads ==
    { <<"#","f","f">>, <<"1","2","g","h","5","6">>,
      <<"U+00E9","cont","1","2","3","4">>, <<"a","U+00E9","cont","2","3","4","5">>,
      <<"U+20AC","cont","cont","U+20AC","cont","cont">> }
PayloadLines == { Cmd("SetColor", hex) : hex \in Payloads } \cup { Cmd("SetThickness", 40) }

NextPayload ==
    \E c \in Conns :
        \/ Connect(c)
        \/ \E l \in PayloadLines : Send(c, l)
        \/ ClientClose(c)
        \/ ReadLine(c)
        \/ ReadEof(c)
        \/ SetColorStore(c)
SpecPayload == InitCtl /\ [][NextPayload]_vars

(***************************************************************************)
(* SpecTui: the configuration TUI's App under key presses.  inp holds the  *)
(* App: its screen, selection, modes and the length of its monitor list.   *)
(* Config values and the input buffer never decide a screen or a           *)
(* selection; call records the key, the selection it found and the value   *)
(* the press assigned.                                                     *)
(***************************************************************************)
MaxMonitors == 2
COLOR_PRESETS_len == 16
THICKNESS_PRESETS_len == 4
ANIMATION_PRESETS_len == 4
MainItems == 15
Keys == {"Up", "Down", "k", "j", "q", "Esc", "Enter", "Backspace", "Char"}
\* the screens whose last row opens the text input, with the rows before it
CustomRows ==
    [Color |-> COLOR_PRESETS_len, Thickness |-> THICKNESS_PRESETS_len, Opacity |-> 4,
     Glow |-> 4, CornerRadius |-> 4, AnimationSpeed |-> 4, BarHeight |-> 4]
\* the main menu rows that open a screen
MainRows ==
    [i \in 2..10 |->
        <<"Color", "Thickness", "Opacity", "Glow", "CornerRadius", "Animation",
          "AnimationSpeed", "BarHeight", "BarPosition">>[i - 1]]

App_new(live_mode, visible, mons) ==
    [screen |-> "Main", selected |-> 0, input_mode |-> FALSE, should_quit |-> FALSE,
     live_mode |-> live_mode, monitors |-> mons, visible |-> visible]

max_items(app) ==
    CASE app.screen = "Main" -> MainItems
      [] app.screen = "Color" -> COLOR_PRESETS_len + 1
      [] app.screen = "Thickness" -> THICKNESS_PRESETS_len + 1
      [] app.screen = "Animation" -> ANIMATION_PRESETS_len
      [] app.screen \in {"Opacity", "Glow", "CornerRadius", "AnimationSpeed", "BarHeight"} -> 5
      [] app.screen = "BarPosition" -> 4
      [] app.screen = "Monitors" -> Max(app.monitors, 1)

\* KeyCode::Up | KeyCode::Char('k')
key_up(app) ==
    IF app.selected > 0
    THEN LET n == app.selected - 1 IN
         [app EXCEPT !.selected =
             IF app.screen = "Main" /\ (n = 1 \/ n = 12)
             THEN (IF n = 1 THEN 0 ELSE 11)
             ELSE n]
    ELSE app

\* Down without the step over a separator
key_down_no_skip(app) ==
    IF app.selected < max_items(app) - 1
    THEN [app EXCEPT !.selected = app.selected + 1]
    ELSE app

\* KeyCode::Down | KeyCode::Char('j')
key_down(app) ==
    IF app.selected < max_items(app) - 1
    THEN LET n == app.selected + 1 IN
         [app EXCEPT !.selected =
             IF app.screen = "Main" /\ (n = 1 \/ n = 12) THEN n + 1 ELSE n]
    ELSE app

Back(app) == [app EXCEPT !.screen = "Main", !.selected = 0]
Did(app, set) == [app |-> app, set |-> set]

\* App::select_item; mons: the length of the list a refresh returns, ok: whether
\* set_monitor_enabled succeeded
select_item(app, mons, ok) ==
    IF app.screen = "Main"
    THEN CASE app.selected = 0 -> Did([app EXCEPT !.visible = ~@], <<"visible">>)
           [] app.selected \in DOMAIN MainRows ->
                 Did([app EXCEPT !.screen = MainRows[app.selected], !.selected = 0], <<>>)
           [] app.selected = 11 ->
                 IF app.live_mode
                 THEN Did([app EXCEPT !.monitors = mons, !.screen = "Monitors", !.selected = 0],
                          <<>>)
                 ELSE Did(app, <<>>)
           [] app.selected = 13 -> Did(app, <<"save">>)
           [] app.selected = 14 -> Did([app EXCEPT !.should_quit = TRUE], <<>>)
           [] OTHER -> Did(app, <<>>)
    ELSE IF app.screen \in DOMAIN CustomRows
    THEN IF app.selected < CustomRows[app.screen]
         THEN Did(Back(app), <<app.screen, app.selected>>)
         ELSE Did([app EXCEPT !.input_mode = TRUE], <<>>)
    ELSE IF app.screen \in {"Animation", "BarPosition"}
    THEN Did(Back(app), <<app.screen, app.selected>>)
    ELSE IF app.monitors # 0 /\ app.selected < app.monitors
         THEN IF ok THEN Did([app EXCEPT !.monitors = mons], <<"monitor", app.selected>>)
              ELSE Did(app, <<>>)
         ELSE Did(app, <<>>)

\* App::handle_input
handle_input(app, key, mons, ok) ==
    IF app.input_mode
    THEN CASE key = "Enter" -> Did([Back(app) EXCEPT !.input_mode = FALSE], <<app.screen, "input">>)
           [] key = "Esc" -> Did([app EXCEPT !.input_mode = FALSE], <<>>)
           [] OTHER -> Did(app, <<>>)
    ELSE CASE key \in {"q", "Esc"} ->
                 IF app.screen = "Main"
                 THEN Did([app EXCEPT !.should_quit = TRUE], <<>>)
                 ELSE Did(Back(app), <<>>)
           [] key \in {"Up", "k"} -> Did(key_up(app), <<>>)
           [] key \in {"Down", "j"} -> Did(key_down(app), <<>>)
           [] key = "Enter" -> select_item(app, mons, ok)
           [] OTHER -> Did(app, <<>>)

\* App::new: live when a running instance answers, then with its monitor list
InitTui ==
    /\ ipc = DefaultIpc
    /\ IdleServer /\ IdleSurf /\ IdleDisk
    /\ outp = <<>> /\ call = NoCall
    /\ \E live_mode \in BOOLEAN, visible \in BOOLEAN, mons \in 0..MaxMonitors :
          /\ ~live_mode => visible /\ mons = 0
          /\ inp = App_new(live_mode, visible, mons)

\* one round of run's loop with a key press
KeyPress(key) ==
    /\ ~inp.should_quit
    /\ \E mons \in 0..MaxMonitors, ok \in BOOLEAN :
          LET did == handle_input(inp, key, mons, ok) IN
          /\ inp' = did.app
          /\ call' = [op |-> "key", arg |-> key,
                      ret |-> [screen |-> inp.screen, selected |-> inp.selected,
                               set |-> did.set]]
    /\ UNCHANGED <<ipc, running, conn, sent, outp, disk, surf>>

NextTui == \E key \in Keys : KeyPress(key)
SpecTui == InitTui /\ [][NextTui]_vars

(***************************************************************************)
(* SpecHex: parse_hex_color -> set_color -> get_color -> color_to_hex on   *)
(* one thread, for every tested string.                                    *)
(***************************************************************************)
HexSample == {"0", "9", "a", "F"}
Hashes(n) == [i \in 1..n |-> "#"]
ExtraSample == {"0", "F"}
HexInputs ==
    { [markers |-> m, digits |-> d \o e] :
        m \in 0..MaxMarkers,
        d \in [1..6 -> HexSample],
        e \in UNION { [1..n -> ExtraSample] : n \in 0..MaxExtra } }

InitHex ==
    /\ ipc = DefaultIpc
    /\ IdleServer /\ IdleSurf /\ IdleDisk
    /\ inp \in HexInputs
    /\ outp = <<>>
    /\ call = NoCall

\* SetColor's body followed by GetState's color field
HexRoundTrip ==
    /\ outp = <<>>
    /\ LET c == parse_hex_color(Hashes(inp.markers) \o inp.digits)
           s == set_color(ipc, c[1], c[2], c[3])
           g == get_color(s)
       IN /\ ipc' = s
          /\ outp' = color_to_hex(g[1], g[2], g[3])
    /\ UNCHANGED <<running, conn, sent, inp, call, disk, surf>>

NextHex == HexRoundTrip
SpecHex == InitHex /\ [][NextHex]_vars

(***************************************************************************)
(* SpecStore: one thread calls a setter and then the getter of the same    *)
(* field.                                                                  *)
(***************************************************************************)
ColorSample == {<<255, 0, 0>>, <<137, 180, 250>>, <<255, 255, 255>>}
ThicknessSample == {0, default_thickness, 200}
GlowSample == {0, default_glow}
SpeedSample == {0, default_animation_speed}
RealSample == {-SubMilli, 0, 1, 500 * SubMilli + 3, default_opacity, default_corner_radius}

InitStore ==
    /\ ipc = DefaultIpc
    /\ IdleServer /\ IdleSurf /\ IdleDisk
    /\ IdleHarness

SetGet(op, arg, s, ret) ==
    /\ ipc' = s
    /\ call' = [op |-> op, arg |-> arg, ret |-> ret]
    /\ UNCHANGED <<running, conn, sent, inp, outp, disk, surf>>

SetGetColor ==
    \E c \in ColorSample :
        LET s == set_color(ipc, c[1], c[2], c[3]) IN SetGet("color", c, s, get_color(s))
SetGetThickness ==
    \E v \in ThicknessSample :
        LET s == set_thickness(ipc, v) IN SetGet("thickness", v, s, get_thickness(s))
SetGetOpacity ==
    \E v \in RealSample :
        LET s == set_opacity(ipc, v) IN SetGet("opacity", v, s, get_opacity(s))
SetGetGlow ==
    \E v \in GlowSample :
        LET s == set_glow(ipc, v) IN SetGet("glow", v, s, get_glow(s))
SetGetCornerRadius ==
    \E v \in RealSample :
        LET s == set_corner_radius(ipc, v) IN SetGet("corner_radius", v, s, get_corner_radius(s))
SetGetAnimation ==
    \E m \in 0..3 :
        LET s == set_animation_mode(ipc, m) IN SetGet("animation", m, s, get_animation_mode(s))
SetGetAnimationSpeed ==
    \E v \in SpeedSample :
        LET s == set_animation_speed(ipc, v) IN SetGet("animation_speed", v, s, get_animation_speed(s))
SetGetVisible ==
    \E v \in BOOLEAN :
        LET s == set_visible(ipc, v) IN SetGet("visible", v, s, is_visible(s))

NextStore ==
    \/ SetGetColor
    \/ SetGetThickness
    \/ SetGetOpacity
    \/ SetGetGlow
    \/ SetGetCornerRadius
    \/ SetGetAnimation
    \/ SetGetAnimationSpeed
    \/ SetGetVisible
SpecStore == InitStore /\ [][NextStore]_vars

RealOps == {"opacity", "corner_radius"}
C5_HexRoundTrip ==
    outp # <<>> => outp = to_lowercase(SubSeq(inp.digits, 1, 6))
C5_Witness ==
    /\ outp # <<>>
    /\ inp.markers = 1
    /\ Len(inp.digits) > 6
    /\ inp.digits[5] = "F" /\ inp.digits[6] = "a" /\ inp.digits[7] = "0"
    /\ outp[5] = "f"

(***************************************************************************)
(* History helpers for the control channel.                                *)
(***************************************************************************)
\* the lines written on connection c, in order
LinesOn(c) ==
    LET OnC(e) == e.conn = c
        es == SelectSeq(sent, OnC)
    IN [i \in DOMAIN es |-> es[i].line]

\* every State response a client has been sent
RepliesOn(c) == { conn[c].out[i] : i \in DOMAIN conn[c].out }
AllReplies == UNION { RepliesOn(c) : c \in Conns }

DefaultState == StateOf([i \in 1..Len(GetFields) |-> DefaultIpc[GetFields[i]]])

\* the handler of connection c takes the line at the head of its queue in this step
Reads(c) ==
    /\ conn[c].pc = "read" /\ conn[c].inq # <<>>
    /\ conn'[c].inq = Tail(conn[c].inq)

(***************************************************************************)
(* C1 (as written): from the default snapshot, once SetColor("ff0000") has *)
(* been written on one connection, a GetState written afterwards on a new  *)
(* connection is answered with color "ff0000" and every other field at its *)
(* default.                                                                *)
(***************************************************************************)
C1_GetStateSeesSetColor ==
    \A a, b \in Conns :
        ( /\ a # b
          /\ sent = << [conn |-> a, line |-> Cmd("SetColor", Red)],
                       [conn |-> b, line |-> GetState] >>
          /\ conn[b].out # <<>> )
        => conn[b].out[1] = [DefaultState EXCEPT !.color = Red]

(***************************************************************************)
(* C2: nothing keeps the store still while a State response is being       *)
(* built: whenever one handler is between two loads of GetState, every     *)
(* other handler with a line to read, or in the middle of set_color, can   *)
(* take its next step, and so can the reader.                              *)
(***************************************************************************)
C2_TornReadNotPrevented ==
    \A r \in Conns :
        (running /\ conn[r].pc = "get_state") =>
            /\ ENABLED GetStateLoad(r)
            /\ \A w \in Conns \ {r} :
                  /\ (conn[w].st = "open" /\ conn[w].pc = "read" /\ conn[w].inq # <<>>)
                        => ENABLED ReadLine(w)
                  /\ conn[w].pc = "set_color" => ENABLED SetColorStore(w)

\* a response holding the thickness from before SetThickness(40) and the opacity
\* from after the SetOpacity(0.5) that the same writer sent later: a pair of
\* values the store never held together
C2_Witness ==
    \E r, w \in Conns :
        /\ r # w
        /\ LinesOn(w) = << Cmd("SetThickness", 40), Cmd("SetOpacity", 500 * SubMilli) >>
        /\ LinesOn(r) = << GetState >>
        /\ conn[r].out # <<>>
        /\ conn[r].out[1].thickness = default_thickness
        /\ conn[r].out[1].opacity = 500 * SubMilli

(***************************************************************************)
(* C3 (as written): every value in a State response is the field's initial *)
(* value or the argument of one single set of that field; in particular    *)
(* the color is the initial color or the color of one SetColor.            *)
(***************************************************************************)
SetValues(name, initial, Stored(_)) ==
    {initial} \cup
    { Stored(sent[i].line.value) : i \in { j \in DOMAIN sent : sent[j].line.cmd = name } }

HexOf(value) == LET c == parse_hex_color(value) IN color_to_hex(c[1], c[2], c[3])
Same(value) == value
Truncated(value) == from_fixed(to_fixed(value))

C3_FieldLevelConsistency ==
    \A s \in AllReplies :
        /\ s.color \in SetValues("SetColor", DefaultState.color, HexOf)
        /\ s.thickness \in SetValues("SetThickness", DefaultState.thickness, Same)
        /\ s.opacity \in SetValues("SetOpacity", DefaultState.opacity, Truncated)
        /\ s.glow \in SetValues("SetGlow", DefaultState.glow, Same)

(***************************************************************************)
(* C6 (as written): a line that does not decode as a command changes no    *)
(* field, produces no reply and leaves the handler in its loop, ready for  *)
(* the next line of the connection.                                        *)
(***************************************************************************)
Malformed(l) == l.cmd \in {"not-utf8", "not-json"}
C6_MalformedLineSkipped ==
    [][ \A c \in Conns :
          (Reads(c) /\ Malformed(Head(conn[c].inq))) =>
              /\ ipc' = ipc
              /\ conn'[c].out = conn[c].out
              /\ conn'[c].pc = "read" ]_vars

(***************************************************************************)
(* C7: when a handler reads Quit the process is gone in the same step;     *)
(* from then on the store never changes, no handler reads a line or writes *)
(* a reply, and a connection attempt is refused.                           *)
(***************************************************************************)
C7_QuitTerminatesProcess ==
    [][ /\ \A c \in Conns : (Reads(c) /\ Head(conn[c].inq) = Quit) => ~running'
        /\ ~running =>
              /\ ~running'
              /\ ipc' = ipc
              /\ \A c \in Conns :
                    /\ conn'[c].inq = conn[c].inq
                    /\ conn'[c].out = conn[c].out
                    /\ conn'[c].pc = conn[c].pc
                    /\ conn'[c].st \in {conn[c].st, "refused"} ]_vars

\* after Quit: a line written before it is still unread, and a later connect failed
C7_Witness ==
    /\ ~running
    /\ \E c \in Conns : conn[c].st = "open" /\ conn[c].inq # <<>>
    /\ \E c \in Conns : conn[c].st = "refused"

(***************************************************************************)
(* C8: the stored animation mode is always one of the four known variants  *)
(* (0 None, 1 Pulse, 2 Rainbow, 3 Breathe), whatever the config file, the  *)
(* command line, SetAnimation and the tray did; a name that is not pulse,  *)
(* rainbow or breathe in any letter case decodes to None; and GetState     *)
(* reports one of the four lowercase names.                                *)
(***************************************************************************)
KnownNames == { None, <<"p","u","l","s","e">>, <<"r","a","i","n","b","o","w">>, <<"b","r","e","a","t","h","e">> }
C8_AnimationModeKnown ==
    /\ ipc.animation_mode \in 0..3
    /\ \A s \in AllReplies : s.animation \in KnownNames
    /\ file # NoFile => file.animation \in KnownNames \cup { f.animation : f \in StartupFiles \ {NoFile} }
    /\ \A i \in DOMAIN sent :
          (sent[i].line.cmd = "SetAnimation" /\ to_lowercase(sent[i].line.value) \notin KnownNames)
             => animation_from_string(sent[i].line.value) = 0

\* an unknown name was applied on top of a known one and GetState reported "none"
C8_Witness ==
    \E c \in Conns :
        /\ LinesOn(c) = << Cmd("SetAnimation", <<"B","R","E","A","T","H","E">>),
                           Cmd("SetAnimation", <<"b","o","g","u","s">>), GetState >>
        /\ conn[c].out # <<>>
        /\ conn[c].out[1].animation = None

(***************************************************************************)
(* Surfaces and registry entries of a connector id.                        *)
(***************************************************************************)
RingsOf(mons, X) == { s \in DOMAIN mons : mons[s].output_name = X }
EntriesOf(reg, X) == { i \in DOMAIN reg : reg[i].id = X }
Connected == { connector_of(o, outputs[o]) : o \in DOMAIN outputs }
Connectors == Connected \cup { monitors[s].output_name : s \in DOMAIN monitors }

(***************************************************************************)
(* C9 (as written): while the process runs, every connected display has    *)
(* exactly one surface state and at most one registry entry, and no        *)
(* connector id has two surface states.                                    *)
(***************************************************************************)
C9_OneSurfacePerConnector ==
    phase # "exited" =>
        /\ \A X \in Connected :
              /\ Cardinality(RingsOf(monitors, X)) = 1
              /\ Cardinality(EntriesOf(registry, X)) <= 1
        /\ \A X \in Connectors : Cardinality(RingsOf(monitors, X)) <= 1

(***************************************************************************)
(* C10: the step that handles output-removed for connector id X leaves no  *)
(* surface state and no registry entry for X, and leaves the surface       *)
(* states and registry entries of every other connector id as they were.   *)
(***************************************************************************)
EntrySet(reg, X) == { reg[i] : i \in EntriesOf(reg, X) }
C10_OutputRemoved ==
    [][ last'.ev = "output_destroyed" =>
          LET X == last'.id IN
          /\ RingsOf(monitors', X) = {}
          /\ EntriesOf(registry', X) = {}
          /\ DOMAIN monitors' = DOMAIN monitors \ RingsOf(monitors, X)
          /\ \A s \in DOMAIN monitors' : monitors'[s] = monitors[s]
          /\ \A Y \in { registry[i].id : i \in DOMAIN registry } \ {X} :
                EntrySet(registry', Y) = EntrySet(registry, Y)
          /\ Len(registry') = Len(registry) - Cardinality(EntriesOf(registry, X)) ]_vars

\* X was removed while another display keeps its configured surface and its entry
C10_Witness ==
    /\ last.ev = "output_destroyed"
    /\ RingsOf(monitors, last.id) = {}
    /\ \E s \in DOMAIN monitors : monitors[s].attached
    /\ Len(registry) > 0

(***************************************************************************)
(* C11: the step that handles surface-closed for a surface S removes S's   *)
(* state and nothing else from the surface set; the process terminates in  *)
(* that step if the set is then empty, and otherwise keeps running with    *)
(* the remaining surface states as they were.                              *)
(***************************************************************************)
C11_SurfaceClosed ==
    [][ last'.ev = "closed" =>
          LET S == last'.surface IN
          /\ S \in DOMAIN monitors
          /\ monitors' = Remove(monitors, S)
          /\ IF DOMAIN monitors = {S}
             THEN phase' = "exited"
             ELSE phase' = phase /\ phase' # "exited" ]_vars

\* one of two surfaces was closed: the process runs on with the configured other one
C11_Witness ==
    /\ last.ev = "closed"
    /\ phase = "loop"
    /\ \E s \in DOMAIN monitors : monitors[s].attached /\ monitors[s].width > 0

(***************************************************************************)
(* C12 (as written): a step that handles surface-closed or output-removed  *)
(* and takes the surface set from non-empty to empty terminates the        *)
(* process in that same step.                                              *)
(***************************************************************************)
C12_EmptySetTerminates ==
    [][ ( /\ last'.ev \in {"closed", "output_destroyed"}
          /\ DOMAIN monitors # {}
          /\ DOMAIN monitors' = {} ) => phase' = "exited" ]_vars

(***************************************************************************)
(* C13: a surface that has not had its first configure event has stored    *)
(* width 0 and height 0, no buffer attached and no frame callback          *)
(* requested; the stored size of a surface changes only in the step that   *)
(* handles a configure event for that surface.                             *)
(***************************************************************************)
C13_NothingBeforeConfigure ==
    /\ [](\A s \in DOMAIN monitors :
            monitors[s].first_configure =>
               /\ monitors[s].width = 0 /\ monitors[s].height = 0
               /\ ~monitors[s].attached
               /\ monitors[s].callbacks = 0)
    /\ [][ \A s \in DOMAIN monitors \cap DOMAIN monitors' :
              (monitors'[s].width # monitors[s].width \/ monitors'[s].height # monitors[s].height)
                 => last'.ev = "configure" /\ last'.surface = s ]_vars

\* one surface is configured and drawn while another still waits for its first configure
C13_Witness ==
    \E s, t \in DOMAIN monitors :
        /\ ~monitors[s].first_configure /\ monitors[s].attached /\ monitors[s].width > 0
        /\ monitors[t].first_configure /\ ~monitors[t].attached /\ monitors[t].width = 0

(***************************************************************************)
(* C14: a step that draws a surface of non-zero size (on configure or on a *)
(* frame callback) while global visibility is false or the surface's       *)
(* display is disabled in the registry attaches a buffer of the surface's  *)
(* size, damages all of it, leaves a frame callback outstanding, and every *)
(* pixel of the buffer is 0, whatever the animation mode, color, opacity,  *)
(* thickness and glow.                                                     *)
(***************************************************************************)
Hidden(s) == ~is_visible(ipc) \/ ~is_monitor_enabled(registry, monitors[s].output_name)
Transparent(buf) == \A i \in DOMAIN buf : buf[i] = <<0, 0, 0, 0>>
C14_HiddenDrawsTransparent ==
    [][ ( /\ last'.ev \in {"configure", "frame"}
          /\ <<monitors, last>>' # <<monitors, last>>
          /\ last'.surface \in DOMAIN monitors'
          /\ monitors'[last'.surface].width > 0
          /\ monitors'[last'.surface].height > 0
          /\ Hidden(last'.surface) ) =>
        LET m == monitors'[last'.surface] IN
        /\ m.attached
        /\ m.damage = <<m.width, m.height>>
        /\ Len(m.buffer) = m.width * m.height
        /\ Transparent(m.buffer)
        /\ m.callbacks >= 1
        /\ m.callbacks = monitors[last'.surface].callbacks
                           + (IF last'.ev = "configure" THEN 1 ELSE 0) ]_vars

\* a Rainbow ring whose display is disabled while the global flag is on was drawn
\* on a frame callback: thirty pixels, all 0
C14_Witness ==
    /\ last.ev = "frame"
    /\ is_visible(ipc) /\ get_animation_mode(ipc) = 2
    /\ last.surface \in DOMAIN monitors
    /\ Hidden(last.surface)
    /\ monitors[last.surface].buffer # <<>>
    /\ Len(monitors[last.surface].buffer) = 30
    /\ Transparent(monitors[last.surface].buffer)
    /\ clock > 0

(***************************************************************************)
(* C15 (as written): every surface has at most one frame callback          *)
(* outstanding at any time.                                                *)
(***************************************************************************)
C15_OneFrameCallback ==
    \A s \in DOMAIN monitors : monitors[s].callbacks <= 1

(***************************************************************************)
(* C16 (as written): the handler iteration that applies a Set command of   *)
(* the control channel writes the configuration snapshot to the config     *)
(* file, or at least has entered save_to_config, when it returns to the    *)
(* top of its loop.                                                        *)
(***************************************************************************)
SetNames ==
    {"SetColor", "SetThickness", "SetOpacity", "SetGlow", "SetCornerRadius",
     "SetAnimation", "SetAnimationSpeed", "SetVisible"}
Applies(c) ==
    /\ running /\ running'
    /\ \/ Reads(c) /\ Head(conn[c].inq).cmd \in SetNames \ {"SetColor"}
       \/ conn[c].pc = "set_color" /\ conn'[c].pc = "read"
C16_CommandMutationSaved ==
    [][ \A c \in Conns :
          Applies(c) =>
             \/ saving' # NoSave
             \/ file' # NoFile /\ file' = save_to_config(ipc', file) ]_vars

(***************************************************************************)
(* C17 (as written): a write of the config file by save_to_config leaves   *)
(* the bar height and bar position recorded in the file as they were, and  *)
(* equal to the values main loaded at startup.                             *)
(***************************************************************************)
SaveWrites == running /\ running' /\ saving # NoSave /\ saving' = NoSave
C17_SavePreservesBar ==
    [][ (SaveWrites /\ file' # NoFile) =>
          /\ file'.bar_height = cfg.bar_height
          /\ file'.bar_position = cfg.bar_position
          /\ file # NoFile => /\ file'.bar_height = file.bar_height
                              /\ file'.bar_position = file.bar_position ]_vars

(***************************************************************************)
(* C18 (as written): the running process never reads the config file after *)
(* startup: no thread of it is ever between a load of the file and the use *)
(* of what it loaded.                                                      *)
(***************************************************************************)
C18_ConfigReadOnce == running => saving = NoSave

(***************************************************************************)
(* C19 (as written): if the config file holds the snapshot of the store    *)
(* when the process exits, the store built by the next start (no options   *)
(* on the command line) has the same color, thickness, opacity, glow,      *)
(* corner radius, animation mode, animation speed and visibility.          *)
(***************************************************************************)
C19_RestartRoundTrip ==
    [][ ( /\ ~running /\ running'
          /\ file # NoFile
          /\ file = save_to_config(ipc, file) ) =>
        /\ get_color(ipc') = get_color(ipc)
        /\ get_thickness(ipc') = get_thickness(ipc)
        /\ get_opacity(ipc') = get_opacity(ipc)
        /\ get_glow(ipc') = get_glow(ipc)
        /\ get_corner_radius(ipc') = get_corner_radius(ipc)
        /\ get_animation_mode(ipc') = get_animation_mode(ipc)
        /\ get_animation_speed(ipc') = get_animation_speed(ipc)
        /\ is_visible(ipc') = is_visible(ipc) ]_vars

(***************************************************************************)
(* C20: once the bind of the control channel has failed, the process is    *)
(* still running, no connection is ever accepted and the store keeps the   *)
(* values it started with; the startup enumeration, configure and frame    *)
(* events are handled as ever: the enumeration runs when the roundtrip is  *)
(* over and every outstanding frame callback can fire and draw.            *)
(***************************************************************************)
C20_BindFailureKeepsRendering ==
    listener = "failed" =>
        /\ running
        /\ ipc = DefaultIpc
        /\ \A c \in Conns : conn[c].st # "open" /\ conn[c].out = <<>>
        /\ phase \in {"roundtrip", "loop"}
        /\ phase = "roundtrip" => ENABLED StartupEnumerate
        /\ \A s \in DOMAIN monitors :
              /\ ENABLED closed(s)
              /\ monitors[s].callbacks > 0 => ENABLED frame(s)
              /\ monitors[s].callbacks < MaxCallbacks => ENABLED configure(s, <<2, 2>>)

\* the bind failed, a client was refused, and a surface was created, configured
\* and redrawn on a frame callback
C20_Witness ==
    /\ listener = "failed"
    /\ \E c \in Conns : conn[c].st = "refused"
    /\ last.ev = "frame"
    /\ \E s \in DOMAIN monitors : monitors[s].attached /\ monitors[s].buffer # <<>>

(***************************************************************************)
(* C21: when a second instance starts while the accept loop of the first   *)
(* is running, its bind succeeds and the socket file names its listener;   *)
(* from then on every new connection is served by the second instance and  *)
(* none by the first.  The first keeps running and drawing, and its store  *)
(* is changed only by the connections it accepted itself, the second's     *)
(* only by the second's.                                                   *)
(***************************************************************************)
TookOver == second.after /\ second.pc \in {"listening", "bound"}
C22_EndpointOwnerOnly ==
    /\ endpoint.owner # 0 => endpoint.mode = "0600"
    /\ \A c \in Conns : conn[c].st = "open" => conn[c].uid = "owner"

C24_RegistryUpsert ==
    [][ (last'.ev = "add_monitor" /\ <<registry, last>>' # <<registry, last>>) =>
          LET id == last'.id
              was == entry_of(registry, id)
              now == { i \in DOMAIN registry' : registry'[i].id = id }
          IN /\ Cardinality(now) = 1
             /\ \A i \in now :
                   /\ registry'[i].display_name = last'.display_name
                   /\ registry'[i].enabled = IF was = {} THEN TRUE
                                             ELSE \A e \in was : e.enabled
             /\ \A other \in RegIds \ {id} :
                   entry_of(registry', other) = entry_of(registry, other)
             /\ Len(registry') = Len(registry) + IF was = {} THEN 1 ELSE 0 ]_vars

\* an entry that had the name "A" and had been toggled off was upserted with the
\* name "B": it is there once, named "B" and still off
C24_Witness ==
    /\ last.ev = "add_monitor" /\ last.display_name = <<"B">>
    /\ last.was = { [id |-> last.id, display_name |-> <<"A">>, enabled |-> FALSE] }
    /\ entry_of(registry, last.id) =
          { [id |-> last.id, display_name |-> <<"B">>, enabled |-> FALSE] }

(***************************************************************************)
(* C25: for every surface size and every thickness T and glow G with       *)
(* T + G > 0, surfaces narrower or shorter than 2 (T + G) included, the    *)
(* alpha computed for the center of the surface is 0.  (The sizes are      *)
(* even, so that the center is a pixel.)                                   *)
(***************************************************************************)
C25_CenterAlphaZero ==
    (call.op = "center" /\ get_thickness(ipc) + get_glow(ipc) > 0) => call.ret = 0

(***************************************************************************)
(* C26: with glow G and opacity fixed, the alpha at signed distance d is 0 *)
(* for d <= 0, the opacity for d > G, and the opacity times (d / G)^3 in   *)
(* between (checked at whole pixels, to four steps of the model's reals),  *)
(* which at d = G is the opacity itself; of two distances the larger one   *)
(* never gets the smaller alpha.  With G = 0 every d > 0 is beyond the     *)
(* glow, so nothing is divided by G.                                       *)
(***************************************************************************)
C26_AlphaFalloff ==
    /\ [](call.op = "alpha" =>
            LET d == call.arg
                G == get_glow(ipc)
                opacity == get_opacity(ipc)
            IN /\ d <= 0 => call.ret = 0
               /\ d > G * One => call.ret = opacity
               /\ d = G * One /\ G > 0 => call.ret = opacity
               /\ (0 < d /\ d <= G * One /\ d % One = 0) =>
                     Abs(call.ret * G * G * G - opacity * (d \div One) * (d \div One) * (d \div One))
                        <= 4 * G * G * G
               /\ G = 0 => call.ret \in {0, opacity})
    /\ [][ (call.op = "alpha" /\ call'.op = "alpha" /\ call.arg <= call'.arg) =>
             call.ret <= call'.ret ]_vars

\* the alpha one pixel inside a glow of two pixels was computed: an eighth of
\* the opacity
C26_Witness ==
    /\ call.op = "alpha" /\ call.arg = One
    /\ get_glow(ipc) = 2 /\ get_opacity(ipc) = One
    /\ call.ret = One \div 8

(***************************************************************************)
(* C27: under Rainbow with speed > 0 the color of a frame is the HSL color *)
(* of hue (frame mod speed) / speed with saturation 1.0 and lightness 0.5, *)
(* so the color at frame f + speed is the color at frame f; the opacity is *)
(* the base opacity.                                                       *)
(***************************************************************************)
C27_RainbowPeriodic ==
    /\ [](call.op = "animate" =>
            /\ call.ret.opacity = get_opacity(ipc)
            /\ call.ret.color = hsl_to_rgb(call.arg % get_animation_speed(ipc),
                                           get_animation_speed(ipc), One, One \div 2))
    /\ [][ ( /\ call.op = "animate" /\ call'.op = "animate"
             /\ call'.arg = call.arg + get_animation_speed(ipc) ) =>
           call'.ret.color = call.ret.color ]_vars

(***************************************************************************)
(* C28: every surface has a margin other than 0 on at most one edge: the   *)
(* edge the bar position names (top, bottom, left or right, in any case;   *)
(* any other string counts as top), where the margin is the bar height.    *)
(***************************************************************************)
C28_MarginOnBarEdge ==
    \A s \in DOMAIN monitors :
        LET margin == monitors[s].margin
            p == to_lowercase(cfg.bar_position)
            edge == IF p = <<"b","o","t","t","o","m">> THEN 3
                    ELSE IF p = <<"l","e","f","t">> THEN 4
                    ELSE IF p = <<"r","i","g","h","t">> THEN 2
                    ELSE 1
        IN /\ Cardinality({ i \in 1..4 : margin[i] # 0 }) <= 1
           /\ \A i \in 1..4 : margin[i] = IF i = edge THEN cfg.bar_height ELSE 0

\* surfaces exist under a bar position that is no edge's name, with the bar
\* height as their top margin, and one of them has been configured
C28_Witness ==
    /\ cfg.bar_position = <<"c","e","n","t","e","r">> /\ cfg.bar_height = default_bar_height
    /\ \E s \in DOMAIN monitors :
          /\ monitors[s].margin = <<default_bar_height, 0, 0, 0>>
          /\ ~monitors[s].first_configure

(***************************************************************************)
(* C29: a step of a handler that reads a Set command changes no field of   *)
(* the store but the command's own (the three color components for         *)
(* SetColor, whose later stores change nothing else either); reading       *)
(* GetState, loading for it, and reading a malformed line change no field. *)
(***************************************************************************)
OwnFields(cmd) ==
    CASE cmd = "SetColor" -> {"color_r", "color_g", "color_b"}
      [] cmd = "SetThickness" -> {"thickness"}
      [] cmd = "SetOpacity" -> {"opacity"}
      [] cmd = "SetGlow" -> {"glow"}
      [] cmd = "SetCornerRadius" -> {"corner_radius"}
      [] cmd = "SetAnimation" -> {"animation_mode"}
      [] cmd = "SetAnimationSpeed" -> {"animation_speed"}
      [] cmd = "SetVisible" -> {"visible"}
      [] OTHER -> {}
C29_SetChangesOwnField ==
    [][ \A c \in Conns :
          /\ Reads(c) =>
                \A f \in DOMAIN ipc \ OwnFields(Head(conn[c].inq).cmd) : ipc'[f] = ipc[f]
          /\ (conn[c].pc = "set_color" /\ conn'[c] # conn[c]) =>
                \A f \in DOMAIN ipc \ OwnFields("SetColor") : ipc'[f] = ipc[f]
          /\ (conn[c].pc = "get_state" /\ conn'[c] # conn[c]) => ipc' = ipc ]_vars

\* the speed was set to 60, the animation to Pulse afterwards, and a GetState
\* was answered: the speed is still 60 and thickness, glow, opacity and
\* visibility are at their defaults
C29_Witness ==
    /\ get_animation_speed(ipc) = 60 /\ get_animation_mode(ipc) = 1
    /\ get_thickness(ipc) = default_thickness /\ get_glow(ipc) = default_glow
    /\ get_opacity(ipc) = default_opacity /\ is_visible(ipc)
    /\ Len(sent) = 3
    /\ sent[1].line = Cmd("SetAnimationSpeed", 60)
    /\ sent[2].line = Cmd("SetAnimation", <<"P","u","l","s","e">>)
    /\ sent[3].line = GetState
    /\ \E c \in Conns : conn[c].out # <<>> /\ conn[c].inq = <<>>

(***************************************************************************)
(* C30: the handler of a connection takes the lines in the order they were *)
(* written on it, and every line written on a connection is taken by its   *)
(* handler at some time or the process has quit, whatever is written on    *)
(* this or any other connection.                                           *)
(***************************************************************************)
Taken(c) == Len(LinesOn(c)) - Len(conn[c].inq)
C30_InOrderAndEventually ==
    /\ [][ \A c \in Conns : Reads(c) => Head(conn[c].inq) = LinesOn(c)[Taken(c) + 1] ]_vars
    /\ \A c \in Conns, k \in 1..MaxSends :
          (Len(LinesOn(c)) >= k) ~> (Taken(c) >= k \/ ~running)

(***************************************************************************)
(* C31: a get after set_opacity or set_corner_radius with a real v >= 0    *)
(* returns floor(v * 1000) / 1000, a negative v is stored as 0 and a v     *)
(* whose scaled value exceeds the store's range as the store's maximum;    *)
(* a GetState reply and a saved config carry the stored integer over 1000, *)
(* never the stored integer itself.                                        *)
(***************************************************************************)
\* the real n / 1000
Thousandths(n) == n * SubMilli
\* the real x is the integer n
IsInteger(x, n) == x % One = 0 /\ x \div One = n
Floor1000(v) == (v - (v % SubMilli)) \div SubMilli
Expected(v) ==
    IF v < 0 THEN 0
    ELSE IF Floor1000(v) > u32_MAX THEN Thousandths(u32_MAX)
    ELSE Thousandths(Floor1000(v))
Carries(x, n) == x = Thousandths(n) /\ (n # 0 => ~IsInteger(x, n))
C32_PremultipliedPixel ==
    call.op = "pixel" =>
        LET alpha == call.ret.alpha
            bytes == call.ret.bytes
        IN /\ alpha * 1000 > One =>
                 /\ (alpha * U8Max) \div One \in 0..U8Max
                 /\ bytes[1] = (alpha * U8Max) \div One
           /\ \A k \in 2..4 : bytes[k] <= bytes[1]

(***************************************************************************)
(* C33: commands one client issues one after another through send_command *)
(* take effect in the order issued: after two successive SetColor calls    *)
(* with different colors, once both have been applied, the stored color is *)
(* the second call's.                                                      *)
(***************************************************************************)
Applied(c) == conn[c].st = "open" /\ conn[c].inq = <<>> /\ conn[c].pc \in {"read", "done"}
C33_AppliedInOrderIssued ==
    ( /\ Len(sent) = 2
      /\ sent[1].line.value # sent[2].line.value
      /\ Applied(sent[1].conn) /\ Applied(sent[2].conn) ) =>
        get_color(ipc) = parse_hex_color(sent[2].line.value)

(***************************************************************************)
(* C34: when two writers call set_color concurrently, a connection thread  *)
(* serving a SetColor and the theme-reload thread, and both have finished, *)
(* the stored color is the argument of one of the two calls, never a       *)
(* mixture of their channels.                                              *)
(***************************************************************************)
C34_NoMixedColor ==
    ( /\ Len(sent) = 1 /\ Applied(sent[1].conn)
      /\ outp # <<>> /\ call.op = "wait" ) =>
        get_color(ipc) \in { parse_hex_color(sent[1].line.value), outp[1] }

(***************************************************************************)
(* C35: after any sequence of output-appeared, configure, surface-closed   *)
(* and output-removed events, the ids in the monitor registry are exactly  *)
(* the connector ids that own a surface state.                             *)
(***************************************************************************)
RegistryIds == { registry[i].id : i \in DOMAIN registry }
SurfaceOwners == { monitors[s].output_name : s \in DOMAIN monitors }
C35_RegistryMatchesSurfaces ==
    phase = "loop" => RegistryIds = SurfaceOwners

(***************************************************************************)
(* C36: rendering never stalls: once a surface has been configured, every  *)
(* frame signal ends with a buffer attached and a new frame callback       *)
(* requested, so that as many callbacks are outstanding after the signal   *)
(* as before it, also after a configure that reported a width or height    *)
(* of 0.                                                                   *)
(***************************************************************************)
C36_FrameAlwaysRedraws ==
    [][ \A s \in DOMAIN monitors :
            frame(s) /\ ~monitors[s].first_configure =>
                /\ monitors'[s].attached
                /\ monitors'[s].callbacks = monitors[s].callbacks ]_vars

(***************************************************************************)
(* C37: whenever draw_monitor evaluates the Pulse, Rainbow or Breathe      *)
(* animation, the stored animation speed is not zero, whatever             *)
(* SetAnimationSpeed commands and startup values came before.              *)
(***************************************************************************)
C37_SpeedNonZeroWhenAnimated ==
    [][ \A frame_no \in SpeedFrames :
            Animate(frame_no) /\ get_animation_mode(ipc) \in 1..3 =>
                get_animation_speed(ipc) # 0 ]_vars

(***************************************************************************)
(* C38: a SetColor with any string payload is applied without aborting the *)
(* connection handler: the handler goes on to store a defined triple,      *)
(* white for a payload of fewer than six bytes after the '#'s, and comes   *)
(* back to read the later commands of its connection.                      *)
(***************************************************************************)
IsTriple(rgb) == \A k \in 1..3 : rgb[k] \in 0..U8Max
C38_AnyPayloadApplied ==
    [][ \A c \in Conns :
            ReadLine(c) /\ Head(conn[c].inq).cmd = "SetColor" =>
                LET hex == Head(conn[c].inq).value
                    rgb == <<ipc'.color_r>> \o conn'[c].loc
                IN /\ conn'[c].pc = "set_color"
                   /\ IsTriple(rgb)
                   /\ Len(trim_start_matches(hex)) < 6 => rgb = <<U8Max, U8Max, U8Max>> ]_vars

(***************************************************************************)
(* C39: in the configuration TUI, after any key presses, the main-menu     *)
(* selection is never on a separator row (index 1 or 12) and is at least 0 *)
(* and below 15; Up and Down pass over a separator to the next selectable  *)
(* row.                                                                    *)
(***************************************************************************)
OnSelectableRow ==
    inp.screen = "Main" => inp.selected \in (0..(MainItems - 1)) \ {1, 12}
PassesSeparator ==
    (call'.op = "key" /\ call'.ret.screen = "Main" /\ inp.screen = "Main") =>
        /\ call'.arg \in {"Down", "j"} /\ inp.selected = 0 => inp'.selected = 2
        /\ call'.arg \in {"Down", "j"} /\ inp.selected = 11 => inp'.selected = 13
        /\ call'.arg \in {"Up", "k"} /\ inp.selected = 2 => inp'.selected = 0
        /\ call'.arg \in {"Up", "k"} /\ inp.selected = 13 => inp'.selected = 11
C39_SelectionSkipsSeparators == []OnSelectableRow /\ [][PassesSeparator]_vars
C39_Witness ==
    /\ inp.screen = "Main" /\ inp.selected = 13
    /\ call.op = "key" /\ call.arg = "Down"
    /\ call.ret.screen = "Main" /\ call.ret.selected = 11

====
